---- MODULE Spec2Model ----
(***************************************************************************)
(* Model of the travel recommendation use case (RecommendationUseCase),    *)
(* the AMap adapter (AmapService), the LLM adapter (LlmService) and the    *)
(* HTTP client they share.                                                 *)
(*                                                                         *)
(* Strings are sequences of characters.  A character is written as a short *)
(* ASCII token (the pinyin of the Chinese character it stands for), so     *)
(* that substring search, trimming and the regular expressions of          *)
(* parseQuery operate on the same data the code operates on.  The empty    *)
(* sequence is the empty string; an absent optional string behaves like    *)
(* the empty string in every test the code makes (x || y, !x, if (x)).     *)
(***************************************************************************)
EXTENDS Integers, Sequences, FiniteSets, TLC

(***************************************************************************)
(* Characters and words                                                    *)
(***************************************************************************)
SP       == "sp"        \* ' '
COMMA    == "comma"     \* ','
COMMA_CN == "comma_cn"  \* '，'

W_woxiangqu == <<"wo", "xiang", "qu">>      \* 我想去
W_qu        == <<"qu">>                     \* 去
W_zai       == <<"zai">>                    \* 在
W_dao       == <<"dao">>                    \* 到
W_wan       == <<"wan">>                    \* 玩
W_lvyou     == <<"lv", "you">>              \* 旅游
W_yiriyou   == <<"yi", "ri", "you">>        \* 一日游
W_liangriyou == <<"liang", "ri", "you">>    \* 两日游
W_sanriyou  == <<"san", "ri", "you">>       \* 三日游
W_chufa     == <<"chu", "fa">>              \* 出发
W_cong      == <<"cong">>                   \* 从
W_chishenme == <<"chi", "shen", "me">>      \* 吃什么
W_canting   == <<"can", "ting">>            \* 餐厅
W_meishi    == <<"mei", "shi">>             \* 美食
W_wanshenme == <<"wan", "shen", "me">>      \* 玩什么
W_jingdian  == <<"jing3", "dian">>          \* 景点
W_kafei     == <<"ka", "fei">>              \* 咖啡
W_kafeidian == <<"ka", "fei", "dian4">>     \* 咖啡店
W_beijing   == <<"bei", "jing">>            \* 北京
W_shanghai  == <<"shang", "hai">>           \* 上海
W_hangzhou  == <<"hang", "zhou">>           \* 杭州
W_guangzhou == <<"guang", "zhou">>          \* 广州

\* The value of a string-typed field that is not a string at run time.
UNDEFINED == <<"#undefined">>

Min(a, b) == IF a <= b THEN a ELSE b

\* F(x), with x evaluated once
Once(F(_), x) == CHOOSE y \in {F(v) : v \in {x}} : TRUE

MinOf(S) == Once(LAMBDA T : CHOOSE x \in T : \A y \in T : x <= y, S)

MaxOf(S) == Once(LAMBDA T : CHOOSE x \in T : \A y \in T : x >= y, S)

\* w occurs in s at position i
StartsAt(s, i, w) ==
  /\ i >= 1
  /\ i + Len(w) - 1 <= Len(s)
  /\ SubSeq(s, i, i + Len(w) - 1) = w

\* String.prototype.includes
Includes(s, w) ==
  Once(LAMBDA t : \E i \in 1..(Len(t) + 1) : StartsAt(t, i, w), s)

\* String.prototype.trim
Trim(s) ==
  LET Kept(t) ==
        LET keep == {i \in 1..Len(t) : t[i] # SP}
        IN  IF keep = {} THEN <<>> ELSE SubSeq(t, MinOf(keep), MaxOf(keep))
  IN  Once(Kept, s)

\* s with the characters lo..hi removed
Cut(s, lo, hi) == SubSeq(s, 1, lo - 1) \o SubSeq(s, hi + 1, Len(s))

\* index of the first word of the list ws that occurs in s at i, 0 if none
FirstAlt(s, i, ws) ==
  LET hit == {k \in 1..Len(ws) : StartsAt(s, i, ws[k])}
  IN  IF hit = {} THEN 0 ELSE MinOf(hit)

(***************************************************************************)
(* RecommendationUseCase.parseQuery                                        *)
(***************************************************************************)
CommaChars == {COMMA_CN, COMMA}

\* the characters lo..hi of s all lie outside the class X
AllNotIn(s, lo, hi, X) == \A k \in lo..hi : s[k] \notin X

\* /从([^，,]+)出发/ tried at position i: the lengths the group can take
DepartureLens(s, i) ==
  {L \in 1..Len(s) :
     /\ StartsAt(s, i, W_cong)
     /\ i + L <= Len(s)
     /\ AllNotIn(s, i + 1, i + L, CommaChars)
     /\ StartsAt(s, i + L + 1, W_chufa)}

DepartureStarts(s) == {i \in 1..Len(s) : DepartureLens(s, i) # {}}

\* query.match(/从([^，,]+)出发/): departureMatch[1].trim(), '' when no match
departureCity(query) ==
  IF DepartureStarts(query) = {} THEN <<>>
  ELSE LET i == MinOf(DepartureStarts(query))
            L == MaxOf(DepartureLens(query, i))     \* the group is greedy
       IN  Trim(SubSeq(query, i + 1, i + L))

CityPrefixes  == <<W_woxiangqu, W_qu, W_zai, W_dao, W_wan>>
CitySuffixes1 == <<W_wan, W_lvyou, W_yiriyou, W_liangriyou, W_sanriyou, W_chufa>>
CitySuffixes2 == <<W_yiriyou, W_liangriyou, W_sanriyou>>
CityExcluded1 == {"wan", "tian", "ri", "chu", "fa", COMMA_CN, COMMA}
CityExcluded2 == {"jin", "ming", "hou", "chu", "fa", COMMA_CN, COMMA}

\* lengths of a group that starts at position g, avoids the class X and is
\* followed by one of the words of sufs
GroupLens(s, g, X, sufs) ==
  {L \in 1..Len(s) :
     /\ g + L - 1 <= Len(s)
     /\ AllNotIn(s, g, g + L - 1, X)
     /\ FirstAlt(s, g + L, sufs) # 0}

\* cityPatterns[0]: /(?:我想去|去|在|到|玩)([^玩天日出发，,]+?)(?:玩|旅游|一日游|两日游|三日游|出发)/
Pattern1Alts(s, i) ==
  {k \in 1..Len(CityPrefixes) :
     /\ StartsAt(s, i, CityPrefixes[k])
     /\ GroupLens(s, i + Len(CityPrefixes[k]), CityExcluded1, CitySuffixes1) # {}}

Pattern1Starts(s) == {i \in 1..Len(s) : Pattern1Alts(s, i) # {}}

\* match[1] of cityPatterns[0], '' when there is no match (the group is lazy)
Pattern1Group(s) ==
  IF Pattern1Starts(s) = {} THEN <<>>
  ELSE LET i == MinOf(Pattern1Starts(s))
            k == MinOf(Pattern1Alts(s, i))
            g == i + Len(CityPrefixes[k])
            L == MinOf(GroupLens(s, g, CityExcluded1, CitySuffixes1))
       IN  SubSeq(s, g, g + L - 1)

\* cityPatterns[1]: /([^今明后出发，,]+?)(?:一日游|两日游|三日游)/
Pattern2Starts(s) ==
  {i \in 1..Len(s) : GroupLens(s, i, CityExcluded2, CitySuffixes2) # {}}

Pattern2Group(s) ==
  IF Pattern2Starts(s) = {} THEN <<>>
  ELSE LET i == MinOf(Pattern2Starts(s))
            L == MinOf(GroupLens(s, i, CityExcluded2, CitySuffixes2))
       IN  SubSeq(s, i, i + L - 1)

\* the comparison with the departure city left out
CityAccepted_NoDeparture(extractedCity, depCity) ==
  /\ Len(extractedCity) <= 4
  /\ ~Includes(extractedCity, W_chufa)
  /\ ~Includes(extractedCity, W_cong)

\* the validity test applied to an extracted city
CityAccepted(extractedCity, depCity) ==
  /\ Len(extractedCity) <= 4
  /\ extractedCity # depCity
  /\ ~Includes(extractedCity, W_chufa)
  /\ ~Includes(extractedCity, W_cong)

CityPhraseSuffixes == <<W_wan, W_lvyou, W_yiriyou, W_liangriyou, W_sanriyou>>

\* prefixes (0 = none) with which the city phrase matches at position i
CityPhraseAlts(s, i, c) ==
  {k \in 0..Len(CityPrefixes) :
     IF k = 0 THEN StartsAt(s, i, c)
     ELSE StartsAt(s, i, CityPrefixes[k])
          /\ StartsAt(s, i + Len(CityPrefixes[k]), c)}

\* query.replace(new RegExp(`(?:我想去|去|在|到|玩)?${c}(?:玩|旅游|一日游|两日游|三日游)?`), '')
RemoveCityPhrase(s, c) ==
  LET starts == {i \in 1..(Len(s) + 1) : CityPhraseAlts(s, i, c) # {}}
  IN  IF starts = {} THEN s
      ELSE LET i    == MinOf(starts)
                alts == CityPhraseAlts(s, i, c)
                \* the optional prefix is greedy: taken when it can be
                k    == IF alts \ {0} # {} THEN MinOf(alts \ {0}) ELSE 0
                plen == IF k = 0 THEN 0 ELSE Len(CityPrefixes[k])
                e    == i + plen + Len(c)
                sk   == FirstAlt(s, e, CityPhraseSuffixes)
                slen == IF sk = 0 THEN 0 ELSE Len(CityPhraseSuffixes[sk])
           IN  Cut(s, i, e + slen - 1)

\* keywords.replace(/从[^，,]+出发/g, ''), scanning from position i
RECURSIVE StripDeparture(_, _)
StripDeparture(s, i) ==
  IF i > Len(s) THEN s
  ELSE IF DepartureLens(s, i) = {} THEN StripDeparture(s, i + 1)
  ELSE StripDeparture(Cut(s, i, i + MaxOf(DepartureLens(s, i)) + 2), i)

\* keywords.replace(/，从[^，,]+出发/g, ''), scanning from position i
RECURSIVE StripCommaDeparture(_, _)
StripCommaDeparture(s, i) ==
  IF i > Len(s) THEN s
  ELSE IF ~(s[i] = COMMA_CN /\ DepartureLens(s, i + 1) # {})
       THEN StripCommaDeparture(s, i + 1)
  ELSE StripCommaDeparture(Cut(s, i, i + MaxOf(DepartureLens(s, i + 1)) + 3), i)

\* keywords.replace(/我想去/g, ''), scanning from position i
RECURSIVE StripWoXiangQu(_, _)
StripWoXiangQu(s, i) ==
  IF i > Len(s) THEN s
  ELSE IF ~StartsAt(s, i, W_woxiangqu) THEN StripWoXiangQu(s, i + 1)
  ELSE StripWoXiangQu(Cut(s, i, i + 2), i)

KW_SCENIC == W_jingdian \o <<SP>> \o W_lvyou     \* '景点 旅游'
KW_FOOD   == W_canting \o <<SP>> \o W_meishi     \* '餐厅 美食'
KW_COFFEE == W_kafeidian                         \* '咖啡店'
HARD_CITY == W_beijing                           \* '北京'

\* the city extraction loop, entered only when no defaultCity was passed:
\* the first pattern whose candidate is accepted decides
ExtractCity(query) ==
  LET Decide(m) ==
        LET dep == m[1]
            c1  == Trim(m[2])
            c2  == Trim(m[3])
        IN  IF m[2] # <<>> /\ CityAccepted(c1, dep)
              THEN [found |-> TRUE, city |-> c1]
            ELSE IF m[3] # <<>> /\ CityAccepted(c2, dep)
              THEN [found |-> TRUE, city |-> c2]
            ELSE [found |-> FALSE, city |-> <<>>]
  IN  Once(Decide, <<departureCity(query), Pattern1Group(query), Pattern2Group(query)>>)

\* the scenic triggers tested before the food triggers
NormalizeKeywords_ScenicFirst(keywords) ==
  LET k1 == Trim(StripDeparture(keywords, 1))
      k2 == Trim(StripCommaDeparture(k1, 1))
      k3 == Trim(StripWoXiangQu(k2, 1))
      k4 == IF Len(k3) < 2 THEN KW_SCENIC ELSE k3
  IN  IF Includes(k4, W_wanshenme) \/ Includes(k4, W_jingdian) \/ Includes(k4, W_lvyou)
        THEN KW_SCENIC
      ELSE IF Includes(k4, W_chishenme) \/ Includes(k4, W_canting) \/ Includes(k4, W_meishi)
        THEN KW_FOOD
      ELSE IF Includes(k4, W_kafei) \/ Includes(k4, W_kafeidian)
        THEN KW_COFFEE
      ELSE k4

\* the clean-up of the keywords and the common query patterns; every
\* statement reassigns keywords, so each value is computed once
NormalizeKeywords(keywords) ==
  LET NoDeparture(k)      == Trim(StripDeparture(k, 1))
      NoCommaDeparture(k) == Trim(StripCommaDeparture(k, 1))
      NoWoXiangQu(k)      == Trim(StripWoXiangQu(k, 1))
      OrDefault(k)        == IF Len(k) < 2 THEN KW_SCENIC ELSE k
      Common(k) ==
        IF Includes(k, W_chishenme) \/ Includes(k, W_canting) \/ Includes(k, W_meishi)
          THEN KW_FOOD
        ELSE IF Includes(k, W_wanshenme) \/ Includes(k, W_jingdian) \/ Includes(k, W_lvyou)
          THEN KW_SCENIC
        ELSE IF Includes(k, W_kafei) \/ Includes(k, W_kafeidian)
          THEN KW_COFFEE
        ELSE k
  IN  Once(Common, Once(OrDefault, Once(NoWoXiangQu,
        Once(NoCommaDeparture, Once(NoDeparture, keywords)))))

\* the city extracted from the text also when a defaultCity was passed
parseQuery_AlwaysExtract(query, defaultCity, cfgCity) ==
  LET city0 == IF defaultCity # <<>> THEN defaultCity
               ELSE IF cfgCity # <<>> THEN cfgCity ELSE HARD_CITY
      ex    == ExtractCity(query)
      city  == IF ex.found THEN ex.city ELSE city0
      kw0   == IF ex.found THEN Trim(RemoveCityPhrase(query, ex.city))
               ELSE Trim(query)
  IN  [keywords |-> NormalizeKeywords(kw0), city |-> city]

\* parseQuery(query, defaultCity) of a use case whose config.defaultCity is
\* cfgCity; query is a string (a query that is not a string makes
\* query.trim() throw, see parseQueryThrows)
parseQuery(query, defaultCity, cfgCity) ==
  LET city0 == IF defaultCity # <<>> THEN defaultCity
               ELSE IF cfgCity # <<>> THEN cfgCity ELSE HARD_CITY
      Rest(ex) ==
        LET city == IF ex.found THEN ex.city ELSE city0
            kw0  == IF ex.found THEN Trim(RemoveCityPhrase(query, ex.city))
                    ELSE Trim(query)
        IN  [keywords |-> NormalizeKeywords(kw0), city |-> city]
  IN  Once(Rest, IF defaultCity = <<>> THEN ExtractCity(query)
                 ELSE [found |-> FALSE, city |-> <<>>])

\* query.trim() on a value that is not a string raises a TypeError
parseQueryThrows(query) == query = UNDEFINED

(***************************************************************************)
(* Numbers and their decimal notation                                      *)
(***************************************************************************)
DigitChars == <<"0", "1", "2", "3", "4", "5", "6", "7", "8", "9">>

DigitValue(c) == (CHOOSE k \in 1..10 : DigitChars[k] = c) - 1

\* Number(s) for a string of decimal digits
RECURSIVE Number(_)
Number(s) ==
  IF s = <<>> THEN 0
  ELSE 10 * Number(SubSeq(s, 1, Len(s) - 1)) + DigitValue(s[Len(s)])

\* `${n}` for a non-negative integer
RECURSIVE NumberToString(_)
NumberToString(n) ==
  IF n < 10 THEN <<DigitChars[n + 1]>>
  ELSE NumberToString(n \div 10) \o <<DigitChars[(n % 10) + 1]>>

\* a number-typed field that is undefined
NO_NUMBER == -1

(***************************************************************************)
(* httpClient: httpGet / httpPost                                          *)
(***************************************************************************)
MSG_REQUEST_FAILED == <<"wang", "luo", "qing", "qiu", "shi1", "bai">>  \* '网络请求失败'
MSG_PARSE_FAILED   == <<"xiang", "ying", "jie", "xi", "shi1", "bai">>  \* '响应解析失败'
MSG_SYNTAX_ERROR   == <<"Unexpected", SP, "token">>                    \* JSON.parse
MSG_NET_ERROR      == <<"wang", "luo", "cuo", "wu">>                   \* '网络错误'
W_Timeout          == <<"Timeout">>                                    \* 'Timeout'
W_chaoshi          == <<"chao", "shi2">>                               \* '超时'

\* normalizeError(err, fallback).message: err.message ?? fallback
normalizeError(message, fallback) ==
  IF message = UNDEFINED THEN fallback ELSE message

\* The callback of httpRequest.request is given an error, a body that
\* JSON.parse rejects, or a body that parses to data.  The promise that
\* httpGet and httpPost return is rejected with an HttpError in the first
\* two cases and resolved with the data in the third.
httpSettle(raw) ==
  IF raw.kind = "error"
    THEN [rejected |-> TRUE,
          message  |-> normalizeError(raw.message, MSG_REQUEST_FAILED),
          data     |-> raw.data]
  ELSE IF raw.kind = "unparsable"
    THEN [rejected |-> TRUE,
          message  |-> normalizeError(MSG_SYNTAX_ERROR, MSG_PARSE_FAILED),
          data     |-> raw.data]
  ELSE [rejected |-> FALSE, message |-> <<>>, data |-> raw.data]

\* x || fallback for strings
OrElse(x, fallback) == IF x = <<>> THEN fallback ELSE x

(***************************************************************************)
(* AmapService                                                             *)
(***************************************************************************)
MSG_POI_FAILED   == <<"POI", "sou", "suo", "shi1", "bai", ":", SP>>        \* 'POI搜索失败: '
MSG_AMAP_ERROR   == <<"gao", "de", "API", "cuo", "wu", ":", SP>>           \* '高德API错误: '
MSG_UNKNOWN      == <<"wei", "zhi", "cuo", "wu">>                          \* '未知错误'
MSG_NO_AMAP_KEY  == <<"gao", "de", "mi", "yao", "wei", "pei", "zhi">>      \* '高德地图密钥未配置'
AMAP_TIMEOUT     == 12000
PAGE_SIZE        == 50

\* this.config.networkTimeout || 12000 (0 stands for an unset networkTimeout)
amapTimeout(cfg) == IF cfg.networkTimeout # 0 THEN cfg.networkTimeout ELSE AMAP_TIMEOUT

\* city || this.config.defaultCity || '北京' inside searchPoi
amapSearchCity(city, cfg) == OrElse(city, OrElse(cfg.defaultCity, HARD_CITY))

\* one entry of response.data.pois mapped to a PoiItem (location, tel and
\* image are copied through and read by nothing in the use case)
PoiItemOf(poi, searchCity) ==
  [name     |-> poi.name,
   address  |-> OrElse(poi.address, OrElse(poi.business_area, <<>>)),
   city     |-> searchCity,
   distance |-> IF poi.distance # <<>> THEN Number(poi.distance) ELSE NO_NUMBER]

\* searchPoi after its httpGet has settled with raw
searchPoi(raw, searchCity) ==
  LET h     == httpSettle(raw)
      inner == IF h.rejected
                 THEN [threw |-> TRUE, message |-> h.message]
               ELSE IF h.data.status # "1"
                 THEN [threw |-> TRUE,
                       message |-> MSG_AMAP_ERROR \o OrElse(h.data.info, MSG_UNKNOWN)]
               ELSE [threw |-> FALSE, message |-> <<>>]
  IN  IF inner.threw
        THEN [rejected |-> TRUE,
              message  |-> MSG_POI_FAILED \o OrElse(inner.message, MSG_NET_ERROR),
              value    |-> <<>>]
      ELSE [rejected |-> FALSE,
            message  |-> <<>>,
            value    |-> [i \in 1..Len(h.data.pois) |->
                            PoiItemOf(h.data.pois[i], searchCity)]]

\* a string | null result that did not throw
Resolved(v) == [rejected |-> FALSE, value |-> v]

\* the catch block of getCityAdcode left out
getCityAdcode_Throws(raw) ==
  LET h == httpSettle(raw)
  IN  IF h.rejected THEN [rejected |-> TRUE, value |-> <<>>]
      ELSE IF h.data.status = "1" /\ Len(h.data.geocodes) > 0
              /\ h.data.geocodes[1].adcode # <<>>
        THEN Resolved(h.data.geocodes[1].adcode)
      ELSE Resolved(<<>>)

\* getCityAdcode after its httpGet has settled with raw; '' stands for null
getCityAdcode(raw) ==
  LET h == httpSettle(raw)
  IN  IF h.rejected THEN Resolved(<<>>)
      ELSE IF h.data.status = "1" /\ Len(h.data.geocodes) > 0
              /\ h.data.geocodes[1].adcode # <<>>
        THEN Resolved(h.data.geocodes[1].adcode)
      ELSE Resolved(<<>>)

NULL_WEATHER ==
  [isNull |-> TRUE, city |-> <<>>, adcode |-> <<>>, weather |-> <<>>,
   temperature |-> <<>>, winddirection |-> <<>>, windpower |-> <<>>,
   humidity |-> <<>>, reporttime |-> <<>>]

\* response.data.lives[0] copied into a WeatherInfo
WeatherInfoOf(live) ==
  [isNull |-> FALSE, city |-> live.city, adcode |-> live.adcode,
   weather |-> live.weather, temperature |-> live.temperature,
   winddirection |-> live.winddirection, windpower |-> live.windpower,
   humidity |-> live.humidity, reporttime |-> live.reporttime]

\* getWeather after its httpGet has settled with raw
getWeather(raw) ==
  LET h == httpSettle(raw)
  IN  IF h.rejected THEN Resolved(NULL_WEATHER)
      ELSE IF h.data.status # "1" \/ Len(h.data.lives) = 0
        THEN Resolved(NULL_WEATHER)
      ELSE Resolved(WeatherInfoOf(h.data.lives[1]))

NULL_FORECAST == [isNull |-> TRUE, days |-> <<>>]

\* one entry of forecasts[0].casts copied into a WeatherForecast
WeatherForecastOf(cast) ==
  [date |-> cast.date, week |-> cast.week,
   dayweather |-> cast.dayweather, nightweather |-> cast.nightweather,
   daytemp |-> cast.daytemp, nighttemp |-> cast.nighttemp]

\* getWeatherForecast after its httpGet has settled with raw
getWeatherForecast(raw) ==
  LET h == httpSettle(raw)
  IN  IF h.rejected THEN Resolved(NULL_FORECAST)
      ELSE IF h.data.status # "1" \/ Len(h.data.forecasts) = 0
        THEN Resolved(NULL_FORECAST)
      ELSE Resolved([isNull |-> FALSE,
                     days   |-> [i \in 1..Len(h.data.forecasts[1].casts) |->
                                   WeatherForecastOf(h.data.forecasts[1].casts[i])]])

\* the city parameter of the weather request: the adcode when there is one
weatherCityParam(city, finalAdcode) == IF finalAdcode # <<>> THEN finalAdcode ELSE city

\* how getWeather and getWeatherForecast begin: without a key they return
\* null, without an adcode they await getCityAdcode, else they send their
\* request
weatherEntry(cfg, adcode) ==
  IF cfg.amapKey = <<>> THEN "nokey"
  ELSE IF adcode = <<>> THEN "geo"
  ELSE "http"

(***************************************************************************)
(* LlmService                                                              *)
(***************************************************************************)
MSG_LLM_FAILED    == <<"da", "mo", "xing", "diao", "yong", "shi1", "bai", ":", SP>>  \* '大模型调用失败: '
MSG_LLM_API_ERROR == <<"da", "mo", "xing", "API", "cuo", "wu", ":", SP>>            \* '大模型API错误: '
MSG_LLM_EMPTY     == <<"da", "mo", "xing", "fan", "hui", "nei", "rong", "wei", "kong">> \* '大模型返回内容为空'
LLM_TIMEOUT       == 60000

\* this.config.networkTimeout || 60000
llmTimeout(cfg) == IF cfg.networkTimeout # 0 THEN cfg.networkTimeout ELSE LLM_TIMEOUT

\* generateRecommendation after its httpPost has settled with raw
generateRecommendation(raw) ==
  LET h     == httpSettle(raw)
      inner == IF h.rejected
                 THEN [threw |-> TRUE, message |-> h.message]
               ELSE IF h.data.hasError
                 THEN [threw |-> TRUE,
                       message |-> MSG_LLM_API_ERROR \o h.data.errorMessage]
               ELSE IF h.data.content = <<>>
                 THEN [threw |-> TRUE, message |-> MSG_LLM_EMPTY]
               ELSE [threw |-> FALSE, message |-> <<>>]
  IN  IF inner.threw
        THEN [rejected |-> TRUE,
              message  |-> MSG_LLM_FAILED \o OrElse(inner.message, MSG_NET_ERROR),
              value    |-> <<>>]
      ELSE [rejected |-> FALSE, message |-> <<>>, value |-> h.data.content]

(***************************************************************************)
(* RecommendationUseCase: summaries and the LLM context                    *)
(***************************************************************************)
\* A literal phrase of a template is written as one token.
TXT_NO_PLACE     == <<"[wei zhao dao xiang guan di dian, qing chang shi qi ta guan jian ci huo jian cha wang luo lian jie.]">>
                                            \* '未找到相关地点，请尝试其他关键词或检查网络连接。'
TXT_FAILED       == <<"[huo qu tui jian shi bai]", ":", SP>>    \* '获取推荐失败: '
TXT_QUERY_OPEN   == <<"[gen ju nin de cha xun]", "\"">>         \* '根据您的查询"'
TXT_QUERY_CLOSE  == <<"\"", COMMA_CN, "[zan wei zhao dao xiang guan tui jian.]">>  \* '"，暂未找到相关推荐。'
TXT_FOUND        == <<"[wei nin zhao dao yi xia tui jian:]">>   \* '为您找到以下推荐：'
TXT_MORE_OPEN    == <<"[hai you]">>                             \* '还有'
TXT_MORE_CLOSE   == <<"[ge jie guo wei xian shi.]">>            \* '个结果未显示。'
TXT_DISTANCE     == <<SP, "-", SP, "[ju li]">>                  \* ' - 距离'
TXT_METERS       == <<"[mi]">>                                  \* '米'
TXT_TIMEOUT_NOTE == <<"\n", "\n", "(", "[zhu: AI tui jian sheng cheng]", "chao", "shi2",
                      COMMA_CN, "[yi xian shi ji chu tui jian lie biao]", ")">>
                                            \* '\n\n（注：AI推荐生成超时，已显示基础推荐列表）'
TXT_TYPE_ERROR   == <<"Cannot", SP, "read", SP, "properties", SP, "of", SP, "undefined">>
SUMMARY_SHOWN    == 5
MERGE_THRESHOLD  == 5
MERGE_LIMIT      == 50

\* the line of one POI in a numbered list
PoiLine(poi, index) ==
  NumberToString(index) \o <<".", SP>> \o poi.name
    \o (IF poi.address # <<>> THEN <<"(">> \o poi.address \o <<")">> ELSE <<>>)
    \o (IF poi.distance # NO_NUMBER
          THEN TXT_DISTANCE \o NumberToString(poi.distance) \o TXT_METERS
          ELSE <<>>)

\* lines.join(sep)
RECURSIVE Join(_, _)
Join(lines, sep) ==
  IF Len(lines) = 0 THEN <<>>
  ELSE IF Len(lines) = 1 THEN lines[1]
  ELSE lines[1] \o sep \o Join(Tail(lines), sep)

\* pois.slice(0, n)
Slice(pois, n) == SubSeq(pois, 1, Min(n, Len(pois)))

\* the number of all results stated instead of the number left out
generateDefaultSummary_CountAll(pois, query) ==
  IF Len(pois) = 0 THEN TXT_QUERY_OPEN \o query \o TXT_QUERY_CLOSE
  ELSE LET shown == Slice(pois, SUMMARY_SHOWN)
            items == Join([i \in 1..Len(shown) |-> PoiLine(shown[i], i)], <<"\n">>)
       IN  TXT_FOUND \o <<"\n", "\n">> \o items \o <<"\n", "\n">>
             \o (IF Len(pois) > SUMMARY_SHOWN
                   THEN TXT_MORE_OPEN \o NumberToString(Len(pois)) \o TXT_MORE_CLOSE
                   ELSE <<>>)

generateDefaultSummary(pois, query) ==
  IF Len(pois) = 0 THEN TXT_QUERY_OPEN \o query \o TXT_QUERY_CLOSE
  ELSE LET shown == Slice(pois, SUMMARY_SHOWN)
            items == Join([i \in 1..Len(shown) |-> PoiLine(shown[i], i)], <<"\n">>)
       IN  TXT_FOUND \o <<"\n", "\n">> \o items \o <<"\n", "\n">>
             \o (IF Len(pois) > SUMMARY_SHOWN
                   THEN TXT_MORE_OPEN \o NumberToString(Len(pois) - SUMMARY_SHOWN) \o TXT_MORE_CLOSE
                   ELSE <<>>)

\* context += context ? `, ${segment}` : segment
AppendSegment(context, segment) ==
  IF context # <<>> THEN context \o <<",", SP>> \o segment ELSE segment

\* the text of one day of the forecast
ForecastDayText(f) ==
  f.date \o <<":", SP, "[bai tian]">> \o f.dayweather \o <<SP>> \o f.daytemp \o <<"C">>
    \o <<",", SP, "[ye jian]">> \o f.nightweather \o <<SP>> \o f.nighttemp \o <<"C">>

\* the wind added whenever a direction is known
buildContext_WindByDirection(request, weather, weatherForecast) ==
  LET c1 == IF request.destination # <<>>
              THEN <<"[mu di di]", ":", SP>> \o request.destination ELSE <<>>
      c2 == IF request.departure # <<>>
              THEN AppendSegment(c1, <<"[chu fa di]", ":", SP>> \o request.departure) ELSE c1
      c3 == IF request.travelDate # <<>>
              THEN AppendSegment(c2, <<"[chu xing ri qi]", ":", SP>> \o request.travelDate) ELSE c2
      c4 == IF request.location # <<>>
              THEN AppendSegment(c3, <<"[dang qian wei zhi]", ":", SP>> \o request.location) ELSE c3
      w1 == IF weather.isNull THEN c4
            ELSE AppendSegment(c4, <<"[dang qian tian qi]", ":", SP>> \o weather.weather
                   \o <<",", SP, "[wen du]", ":", SP>> \o weather.temperature \o <<"C">>)
      w2 == IF ~weather.isNull /\ weather.winddirection # <<>>
              THEN w1 \o <<",", SP, "[feng xiang]", ":", SP>> \o weather.winddirection
                      \o <<",", SP, "[feng li]", ":", SP>> \o weather.windpower
              ELSE w1
      w3 == IF ~weather.isNull /\ weather.humidity # <<>>
              THEN w2 \o <<",", SP, "[shi du]", ":", SP>> \o weather.humidity \o <<"%">>
              ELSE w2
  IN  IF ~weatherForecast.isNull /\ Len(weatherForecast.days) > 0
        THEN AppendSegment(w3, <<"[wei lai tian qi]", ":", SP>>
               \o Join([i \in 1..Len(weatherForecast.days) |->
                          ForecastDayText(weatherForecast.days[i])], <<";", SP>>))
      ELSE w3

\* the context handed to generateRecommendation ('' stands for undefined)
buildContext(request, weather, weatherForecast) ==
  LET c1 == IF request.destination # <<>>
              THEN <<"[mu di di]", ":", SP>> \o request.destination ELSE <<>>
      c2 == IF request.departure # <<>>
              THEN AppendSegment(c1, <<"[chu fa di]", ":", SP>> \o request.departure) ELSE c1
      c3 == IF request.travelDate # <<>>
              THEN AppendSegment(c2, <<"[chu xing ri qi]", ":", SP>> \o request.travelDate) ELSE c2
      c4 == IF request.location # <<>>
              THEN AppendSegment(c3, <<"[dang qian wei zhi]", ":", SP>> \o request.location) ELSE c3
      w1 == IF weather.isNull THEN c4
            ELSE AppendSegment(c4, <<"[dang qian tian qi]", ":", SP>> \o weather.weather
                   \o <<",", SP, "[wen du]", ":", SP>> \o weather.temperature \o <<"C">>)
      w2 == IF ~weather.isNull /\ weather.winddirection # <<>> /\ weather.windpower # <<>>
              THEN w1 \o <<",", SP, "[feng xiang]", ":", SP>> \o weather.winddirection
                      \o <<",", SP, "[feng li]", ":", SP>> \o weather.windpower
              ELSE w1
      w3 == IF ~weather.isNull /\ weather.humidity # <<>>
              THEN w2 \o <<",", SP, "[shi du]", ":", SP>> \o weather.humidity \o <<"%">>
              ELSE w2
  IN  IF ~weatherForecast.isNull /\ Len(weatherForecast.days) > 0
        THEN AppendSegment(w3, <<"[wei lai tian qi]", ":", SP>>
               \o Join([i \in 1..Len(weatherForecast.days) |->
                          ForecastDayText(weatherForecast.days[i])], <<";", SP>>))
      ELSE w3

(***************************************************************************)
(* What the remote services can answer                                     *)
(***************************************************************************)
MaxListLen == 2     \* longest list of records of the same place

\* the name of the n-th place
PlaceName(n) == <<"p">> \o NumberToString(n)

RawPoi(n) ==
  [name |-> PlaceName(n), address |-> <<"addr">> \o NumberToString(n),
   business_area |-> <<>>, distance |-> <<>>]

\* a record without address (business_area is used) and with a distance
RawPoiFar(n) ==
  [name |-> PlaceName(n), address |-> <<>>,
   business_area |-> <<"area">>, distance |-> <<"1", "2", "0">>]

\* a record with neither address nor business_area, distance '0'
RawPoiBare(n) ==
  [name |-> PlaceName(n), address |-> <<>>,
   business_area |-> <<>>, distance |-> <<"0">>]

\* the places lo..hi
RawRange(lo, hi) == [i \in 1..(hi - lo + 1) |-> RawPoi(lo + i - 1)]

RECURSIVE SeqsUpTo(_, _)
SeqsUpTo(S, n) ==
  IF n = 0 THEN {<<>>}
  ELSE SeqsUpTo(S, n - 1)
         \cup {Append(q, x) : q \in {t \in SeqsUpTo(S, n - 1) : Len(t) = n - 1}, x \in S}

PoiLists ==
  SeqsUpTo({RawPoi(1)}, MaxListLen)
    \cup {<<RawPoi(1), RawPoiFar(2), RawPoiBare(3)>>,
          RawRange(3, 6),
          <<RawPoi(1), RawPoi(2), RawPoi(3), RawPoi(4), RawPoiFar(1)>>,
          RawRange(1, 7),
          RawRange(1, PAGE_SIZE)}

ERR_TIMEOUT  == <<"Timeout", SP, "was", SP, "reached">>
ERR_CHAOSHI  == <<"qing", "qiu">> \o W_chaoshi                \* '请求超时'
ERR_HOST     == <<"Couldnt", SP, "resolve", SP, "host">>
TransportMessages    == {ERR_TIMEOUT, ERR_CHAOSHI, ERR_HOST, <<>>, UNDEFINED}
AmapTransportMessages == {ERR_TIMEOUT, UNDEFINED}

NoPoiData == [status |-> "0", info |-> <<>>, pois |-> <<>>]

PoiOutcomes ==
  {[kind |-> "error", message |-> m, data |-> NoPoiData] : m \in AmapTransportMessages}
    \cup {[kind |-> "unparsable", message |-> <<>>, data |-> NoPoiData]}
    \cup {[kind |-> "ok", message |-> <<>>,
           data |-> [status |-> "0", info |-> i, pois |-> <<>>]] :
            i \in {<<>>, <<"INVALID_USER_KEY">>}}
    \cup {[kind |-> "ok", message |-> <<>>,
           data |-> [status |-> "1", info |-> <<"OK">>, pois |-> l]] : l \in PoiLists}

ADCODE_SH == <<"3", "1", "0", "0", "0", "0">>

NoGeoData == [status |-> "0", geocodes |-> <<>>]

GeoOutcomes ==
  {[kind |-> "error", message |-> m, data |-> NoGeoData] : m \in AmapTransportMessages}
    \cup {[kind |-> "unparsable", message |-> <<>>, data |-> NoGeoData]}
    \cup {[kind |-> "ok", message |-> <<>>, data |-> d] :
            d \in {NoGeoData,
                   [status |-> "1", geocodes |-> <<>>],
                   [status |-> "1", geocodes |-> <<[adcode |-> <<>>]>>],
                   [status |-> "1", geocodes |-> <<[adcode |-> ADCODE_SH]>>]}}

LiveFull ==
  [city |-> W_shanghai, adcode |-> ADCODE_SH, weather |-> <<"qing">>,
   temperature |-> <<"2", "5">>, winddirection |-> <<"dong">>,
   windpower |-> <<"3">>, humidity |-> <<"6", "0">>, reporttime |-> <<"t0">>]

\* a report without wind power and without humidity
LiveSparse == [LiveFull EXCEPT !.windpower = <<>>, !.humidity = <<>>]

Cast(d) ==
  [date |-> <<"d">> \o NumberToString(d), week |-> NumberToString(d),
   dayweather |-> <<"qing">>, nightweather |-> <<"yin">>,
   daytemp |-> <<"2", "6">>, nighttemp |-> <<"1", "8">>]

NoWeatherData == [status |-> "0", info |-> <<>>, lives |-> <<>>, forecasts |-> <<>>]

WeatherData(lives, forecasts) ==
  [status |-> "1", info |-> <<"OK">>, lives |-> lives, forecasts |-> forecasts]

WeatherFailures ==
  {[kind |-> "error", message |-> m, data |-> NoWeatherData] : m \in AmapTransportMessages}
    \cup {[kind |-> "unparsable", message |-> <<>>, data |-> NoWeatherData]}
    \cup {[kind |-> "ok", message |-> <<>>, data |-> d] :
            d \in {NoWeatherData, WeatherData(<<>>, <<>>)}}

LiveOutcomes ==
  WeatherFailures
    \cup {[kind |-> "ok", message |-> <<>>, data |-> WeatherData(<<l>>, <<>>)] :
            l \in {LiveFull, LiveSparse}}

ForecastOutcomes ==
  WeatherFailures
    \cup {[kind |-> "ok", message |-> <<>>,
           data |-> WeatherData(<<>>, <<[city |-> W_shanghai, casts |-> c]>>)] :
            c \in {<<>>, <<Cast(1), Cast(2)>>}}

LLM_CONTENT == <<"[tui jian xing cheng]">>

NoLlmData == [hasError |-> FALSE, errorMessage |-> <<>>, content |-> <<>>]

LlmOutcomes ==
  {[kind |-> "error", message |-> m, data |-> NoLlmData] : m \in TransportMessages}
    \cup {[kind |-> "unparsable", message |-> <<>>, data |-> NoLlmData]}
    \cup {[kind |-> "ok", message |-> <<>>, data |-> d] :
            d \in {NoLlmData,
                   [hasError |-> TRUE, errorMessage |-> <<"quota">>, content |-> <<>>],
                   [hasError |-> TRUE, errorMessage |-> ERR_TIMEOUT, content |-> <<>>],
                   [hasError |-> FALSE, errorMessage |-> <<>>, content |-> LLM_CONTENT]}}

(***************************************************************************)
(* State                                                                   *)
(*   config  the AppConfig the use case and both services were built with  *)
(*   runs    the invocations of getRecommendations: for each its position  *)
(*           (pc: the await it is suspended at), its request, its locals,  *)
(*           the HTTP requests it has issued and the promise it returned   *)
(*   script  what the remote services answer to each run: anything they   *)
(*           can answer, or one fixed answer for each request of the run   *)
(*   direct  a call of one of the weather functions of AmapService made    *)
(*           by a caller other than the use case                           *)
(*   unit    one application of parseQuery, generateDefaultSummary or of   *)
(*           the context building of getRecommendations to given arguments *)
(***************************************************************************)
VARIABLES config, runs, script, direct, unit

vars == <<config, runs, script, direct, unit>>

Runs == {1, 2}

PENDING ==
  [settled |-> "pending", summary |-> <<>>, items |-> <<>>, fromMock |-> FALSE,
   weather |-> NULL_WEATHER, weatherForecast |-> NULL_FORECAST]

\* what a searchPoi call came to: nothing yet, a list, or a thrown error
NOT_SETTLED == [state |-> "none", value |-> <<>>]

Fulfilled(value) == [state |-> "ok", value |-> value]

Failed == [state |-> "failed", value |-> <<>>]

\* the error caught around generateRecommendation, if any
NO_ERROR == [caught |-> FALSE, message |-> <<>>]

\* the locals of an invocation that has not started
NewRun(request) ==
  [pc |-> "idle", request |-> request, keywords |-> <<>>, searchCity |-> <<>>,
   pois |-> <<>>, cityAdcode |-> <<>>, weather |-> NULL_WEATHER,
   weatherForecast |-> NULL_FORECAST,
   first |-> NOT_SETTLED, second |-> NOT_SETTLED, llmError |-> NO_ERROR,
   calls |-> <<>>, inflight |-> 0, via |-> "", overlapped |-> FALSE,
   result |-> PENDING]

\* an HTTP request is handed to the network and the invocation suspends
Issue(s, call, pc) ==
  [s EXCEPT !.calls = Append(@, call), !.inflight = @ + 1, !.pc = pc]

\* the outstanding HTTP request has completed
Settle(s) == [s EXCEPT !.inflight = @ - 1]

\* a return statement of getRecommendations; via names which one
Return(s, result, via) == [s EXCEPT !.pc = "done", !.result = result, !.via = via]

Call(api, keywords, city, timeout, query, pois, context) ==
  [api |-> api, keywords |-> keywords, city |-> city, timeout |-> timeout,
   query |-> query, pois |-> pois, context |-> context]

PlaceCall(keywords, city) ==
  Call("place/text", keywords, amapSearchCity(city, config), amapTimeout(config),
       <<>>, <<>>, <<>>)

GeoCall(cityName) ==
  Call("geocode/geo", <<>>, cityName, amapTimeout(config), <<>>, <<>>, <<>>)

LiveCall(cityParam) ==
  Call("weather/base", <<>>, cityParam, amapTimeout(config), <<>>, <<>>, <<>>)

ForecastCall(cityParam) ==
  Call("weather/all", <<>>, cityParam, amapTimeout(config), <<>>, <<>>, <<>>)

LlmCall(query, pois, context) ==
  Call("chat/completions", <<>>, <<>>, llmTimeout(config), query, pois, context)

(***************************************************************************)
(* RecommendationUseCase.getRecommendations, from its last stage to its    *)
(* first: each operator runs the code from one point up to the next await  *)
(* or return                                                               *)
(***************************************************************************)
\* fromMock written as the constant the other two returns use
FinalResult_NeverMock(s, summary) ==
  [settled |-> "resolved", summary |-> summary, items |-> s.pois,
   fromMock |-> FALSE, weather |-> s.weather,
   weatherForecast |-> s.weatherForecast]

\* the result assembled at the end of the try block
FinalResult(s, summary) ==
  [settled |-> "resolved", summary |-> summary, items |-> s.pois,
   fromMock |-> config.mockMode, weather |-> s.weather,
   weatherForecast |-> s.weatherForecast]

\* the result returned when the POI list is empty outside mock mode
NoPlaceResult ==
  [settled |-> "resolved", summary |-> TXT_NO_PLACE, items |-> <<>>,
   fromMock |-> FALSE, weather |-> NULL_WEATHER, weatherForecast |-> NULL_FORECAST]

\* the catch block left out: the error leaves getRecommendations
TopLevelCatch_Rethrow(s, message) ==
  Return(s, [PENDING EXCEPT !.settled = "rejected"], "caught")

\* the catch block of getRecommendations
TopLevelCatch(s, message) ==
  Return(s, [settled |-> "resolved", summary |-> TXT_FAILED \o message,
             items |-> <<>>, fromMock |-> FALSE,
             weather |-> NULL_WEATHER, weatherForecast |-> NULL_FORECAST],
         "caught")

\* only the English word is looked for
IsTimeoutMessage_EnglishOnly(message) == Includes(message, W_Timeout)

\* err.message.includes('Timeout') || err.message.includes('超时')
IsTimeoutMessage(message) == Includes(message, W_Timeout) \/ Includes(message, W_chaoshi)

\* the catch block around generateRecommendation
LlmFallbackSummary(s, message) ==
  IF IsTimeoutMessage(message)
    THEN generateDefaultSummary(s.pois, s.request.query) \o TXT_TIMEOUT_NOTE
  ELSE generateDefaultSummary(s.pois, s.request.query)

\* mock mode not looked at before the LLM is called
EnterSummary_IgnoresMock(s) ==
  IF config.llmApiKey # <<>>
    THEN Issue(s, LlmCall(s.request.query, s.pois,
                          buildContext(s.request, s.weather, s.weatherForecast)),
               "llm")
  ELSE Return(s, FinalResult(s, generateDefaultSummary(s.pois, s.request.query)),
              "assembled")

\* step 5: the summary, from the LLM when there is a key for it
EnterSummary(s) ==
  IF ~config.mockMode /\ config.llmApiKey # <<>>
    THEN Issue(s, LlmCall(s.request.query, s.pois,
                          buildContext(s.request, s.weather, s.weatherForecast)),
               "llm")
  ELSE Return(s, FinalResult(s, generateDefaultSummary(s.pois, s.request.query)),
              "assembled")

\* a failure of the LLM leaves the summary empty
LlmSettled_NoFallback(s, raw) ==
  LET g  == generateRecommendation(raw)
      s1 == Settle(s)
  IN  IF g.rejected
        THEN Return([s1 EXCEPT !.llmError = [caught |-> TRUE, message |-> g.message]],
                    FinalResult(s1, <<>>), "assembled")
      ELSE Return(s1, FinalResult(s1, g.value), "assembled")

\* generateRecommendation has settled
LlmSettled(s, raw) ==
  LET g  == generateRecommendation(raw)
      s1 == Settle(s)
  IN  IF g.rejected
        THEN Return([s1 EXCEPT !.llmError = [caught |-> TRUE, message |-> g.message]],
                    FinalResult(s1, LlmFallbackSummary(s1, g.message)), "assembled")
      ELSE Return(s1, FinalResult(s1, g.value), "assembled")

\* a forecast that failed takes the current weather with it
ForecastSettled_WipesWeather(s, raw) ==
  LET f  == getWeatherForecast(raw)
      s1 == Settle(s)
  IN  IF f.rejected \/ f.value.isNull THEN EnterSummary([s1 EXCEPT !.weather = NULL_WEATHER])
      ELSE EnterSummary([s1 EXCEPT !.weatherForecast = f.value])

\* the httpGet of getWeatherForecast has settled
ForecastSettled(s, raw) ==
  LET f  == getWeatherForecast(raw)
      s1 == Settle(s)
  IN  IF f.rejected THEN EnterSummary(s1)        \* the catch around step 4
      ELSE EnterSummary([s1 EXCEPT !.weatherForecast = f.value])

\* getWeatherForecast(searchCity, cityAdcode) up to its first await
StartForecast(s) ==
  LET entry == weatherEntry(config, s.cityAdcode)
  IN  IF entry = "nokey" THEN EnterSummary(s)
      ELSE IF entry = "geo" THEN Issue(s, GeoCall(s.searchCity), "forecast_geo")
      ELSE Issue(s, ForecastCall(weatherCityParam(s.searchCity, s.cityAdcode)), "forecast")

\* the getCityAdcode that getWeatherForecast awaits has settled
ForecastGeoSettled(s, raw) ==
  LET a  == getCityAdcode(raw)
      s1 == Settle(s)
  IN  IF a.rejected THEN EnterSummary(s1)        \* caught in getWeatherForecast: null
      ELSE Issue(s1, ForecastCall(weatherCityParam(s1.searchCity, a.value)), "forecast")

\* the httpGet of getWeather has settled
WeatherSettled(s, raw) ==
  LET w  == getWeather(raw)
      s1 == Settle(s)
  IN  IF w.rejected THEN EnterSummary(s1)        \* the catch around step 4
      ELSE StartForecast([s1 EXCEPT !.weather = w.value])

\* getWeather(searchCity, cityAdcode) up to its first await
StartWeather(s) ==
  LET entry == weatherEntry(config, s.cityAdcode)
  IN  IF entry = "nokey" THEN StartForecast(s)
      ELSE IF entry = "geo" THEN Issue(s, GeoCall(s.searchCity), "weather_geo")
      ELSE Issue(s, LiveCall(weatherCityParam(s.searchCity, s.cityAdcode)), "weather")

\* the getCityAdcode that getWeather awaits has settled
WeatherGeoSettled(s, raw) ==
  LET a  == getCityAdcode(raw)
      s1 == Settle(s)
  IN  IF a.rejected THEN StartForecast(s1)       \* caught in getWeather: null
      ELSE Issue(s1, LiveCall(weatherCityParam(s1.searchCity, a.value)), "weather")

\* the getCityAdcode of step 4 has settled (the lists of the two searches
\* went out of scope with the block of step 3)
GeocodeSettled(s, raw) ==
  LET a  == getCityAdcode(raw)
      s1 == [Settle(s) EXCEPT !.first = NOT_SETTLED, !.second = NOT_SETTLED]
  IN  IF a.rejected THEN EnterSummary(s1)        \* the catch around step 4
      ELSE StartWeather([s1 EXCEPT !.cityAdcode = a.value])

\* mock mode not looked at before the weather is asked for
EnterWeather_IgnoresMock(s) ==
  IF config.amapKey # <<>> /\ s.searchCity # <<>>
    THEN Issue(s, GeoCall(s.searchCity), "geocode")
  ELSE EnterSummary(s)

\* step 4: the weather, when there is a map key and a city
EnterWeather(s) ==
  IF ~config.mockMode /\ config.amapKey # <<>> /\ s.searchCity # <<>>
    THEN Issue(s, GeoCall(s.searchCity), "geocode")
  ELSE EnterSummary(s)

\* the empty list is not looked at
AfterPlaces_NoCheck(s) == EnterWeather(s)

\* step 3 (second): no POI outside mock mode ends the run
AfterPlaces(s) ==
  IF Len(s.pois) = 0 /\ ~config.mockMode THEN Return(s, NoPlaceResult, "no_place")
  ELSE EnterWeather(s)

\* fallbackPois.filter(p => !existingNames.has(p.name))
NewPois(pois, fallbackPois) ==
  SelectSeq(fallbackPois, LAMBDA p : \A i \in 1..Len(pois) : pois[i].name # p.name)

\* the fallback list appended whole
MergePois_NoFilter(pois, fallbackPois) == Slice(pois \o fallbackPois, MERGE_LIMIT)

\* [...pois, ...newPois].slice(0, 50)
MergePois(pois, fallbackPois) == Slice(pois \o NewPois(pois, fallbackPois), MERGE_LIMIT)

\* the second searchPoi ('景点') has settled
Search2Settled(s, raw) ==
  LET r  == searchPoi(raw, amapSearchCity(s.searchCity, config))
      s1 == Settle(s)
  IN  IF r.rejected THEN AfterPlaces([s1 EXCEPT !.pois = <<>>, !.second = Failed])
      ELSE AfterPlaces([s1 EXCEPT !.pois = MergePois(s1.pois, r.value),
                                  !.second = Fulfilled(r.value)])

\* pois.length < 5
NeedsFallbackSearch(pois) == Len(pois) < MERGE_THRESHOLD

\* the catch block around the searches left out
Search1Settled_NoCatch(s, raw) ==
  LET r  == searchPoi(raw, amapSearchCity(s.searchCity, config))
      s1 == Settle(s)
  IN  IF r.rejected THEN TopLevelCatch([s1 EXCEPT !.first = Failed], r.message)
      ELSE IF NeedsFallbackSearch(r.value)
        THEN Issue([s1 EXCEPT !.pois = r.value, !.first = Fulfilled(r.value)],
                   PlaceCall(W_jingdian, s1.searchCity), "search2")
      ELSE AfterPlaces([s1 EXCEPT !.pois = r.value, !.first = Fulfilled(r.value)])

\* the first searchPoi has settled
Search1Settled(s, raw) ==
  LET r  == searchPoi(raw, amapSearchCity(s.searchCity, config))
      s1 == Settle(s)
  IN  IF r.rejected THEN AfterPlaces([s1 EXCEPT !.pois = <<>>, !.first = Failed])
      ELSE IF NeedsFallbackSearch(r.value)
        THEN Issue([s1 EXCEPT !.pois = r.value, !.first = Fulfilled(r.value)],
                   PlaceCall(W_jingdian, s1.searchCity), "search2")
      ELSE AfterPlaces([s1 EXCEPT !.pois = r.value, !.first = Fulfilled(r.value)])

KW_BROAD ==
  W_jingdian \o <<"|">> \o W_lvyou \o W_jingdian
    \o <<"|", "[ming sheng gu ji]", "|", "[jing qu]", "|", "[gong yuan]",
         "|", "[bo wu guan]", "|", "[ji nian guan]">>
                          \* '景点|旅游景点|名胜古迹|景区|公园|博物馆|纪念馆'
KW_EXTRA == <<"|">> \o W_jingdian \o <<"|">> \o W_lvyou \o W_jingdian   \* '|景点|旅游景点'

\* the broad combination whatever the keywords are
searchKeywords_AlwaysBroad(keywords) == KW_BROAD

\* the keywords of the first search
searchKeywords(keywords) ==
  IF keywords = <<>> \/ keywords = KW_SCENIC THEN KW_BROAD
  ELSE IF ~Includes(keywords, W_jingdian) /\ ~Includes(keywords, W_lvyou)
    THEN keywords \o KW_EXTRA
  ELSE keywords

\* request.city passed over
targetCity_SkipsCity(request) ==
  OrElse(request.destination, OrElse(config.defaultCity, HARD_CITY))

\* request.destination || request.city || this.config.defaultCity || '北京'
targetCity(request) ==
  OrElse(request.destination, OrElse(request.city, OrElse(config.defaultCity, HARD_CITY)))

\* the places searched without looking for a key
Begin_NoKeyCheck(s) ==
  IF parseQueryThrows(s.request.query) THEN TopLevelCatch(s, TXT_TYPE_ERROR)
  ELSE
    LET target == targetCity(s.request)
        parsed == parseQuery(s.request.query, target, config.defaultCity)
        city   == OrElse(s.request.destination, OrElse(parsed.city, target))
        s1     == [s EXCEPT !.keywords = parsed.keywords, !.searchCity = city]
    IN  IF ~config.mockMode
          THEN Issue(s1, PlaceCall(searchKeywords(parsed.keywords), city), "search1")
        ELSE AfterPlaces(s1)

\* getRecommendations from its entry to its first await or return
Begin(s) ==
  IF parseQueryThrows(s.request.query) THEN TopLevelCatch(s, TXT_TYPE_ERROR)
  ELSE
    LET target == targetCity(s.request)
        parsed == parseQuery(s.request.query, target, config.defaultCity)
        city   == OrElse(s.request.destination, OrElse(parsed.city, target))
        s1     == [s EXCEPT !.keywords = parsed.keywords, !.searchCity = city]
    IN  IF ~config.mockMode /\ config.amapKey # <<>>
          THEN Issue(s1, PlaceCall(searchKeywords(parsed.keywords), city), "search1")
        ELSE AfterPlaces(s1)

(***************************************************************************)
(* Configurations, requests and scripted answers                           *)
(***************************************************************************)
Q_SHANGHAI == W_woxiangqu \o W_shanghai \o W_wan        \* '我想去上海玩'
Q_FOOD     == W_chishenme \o <<"hao">>                  \* '吃什么好'

Configs ==
  {[amapKey |-> a, llmApiKey |-> l, mockMode |-> m,
    defaultCity |-> p[1], networkTimeout |-> p[2]] :
     a \in {<<>>, <<"amap-key">>}, l \in {<<>>, <<"llm-key">>}, m \in BOOLEAN,
     p \in {<<W_guangzhou, 12000>>, <<<<>>, 0>>}}

Requests ==
  {[query |-> q, city |-> x[1], destination |-> d,
    departure |-> x[2], travelDate |-> x[3], location |-> x[4]] :
     q \in {UNDEFINED, Q_SHANGHAI, Q_FOOD},
     d \in {<<>>, W_hangzhou},
     x \in {<<<<>>, <<>>, <<>>, <<>>>>, <<W_shanghai, W_beijing, <<"d1">>, <<"here">>>>}}

OkPois(list) ==
  [kind |-> "ok", message |-> <<>>,
   data |-> [status |-> "1", info |-> <<"OK">>, pois |-> list]]

OkGeo(geocodes) ==
  [kind |-> "ok", message |-> <<>>, data |-> [status |-> "1", geocodes |-> geocodes]]

OkWeather(lives, forecasts) ==
  [kind |-> "ok", message |-> <<>>, data |-> WeatherData(lives, forecasts)]

\* every request of the run is answered, the weather is found
AnswersGood ==
  [idle         |-> OkPois(<<>>),
   search1      |-> OkPois(<<RawPoi(1), RawPoiFar(2), RawPoiBare(3)>>),
   search2      |-> OkPois(RawRange(3, 6)),
   geocode      |-> OkGeo(<<[adcode |-> ADCODE_SH]>>),
   weather_geo  |-> OkGeo(<<[adcode |-> ADCODE_SH]>>),
   weather      |-> OkWeather(<<LiveFull>>, <<>>),
   forecast_geo |-> OkGeo(<<[adcode |-> ADCODE_SH]>>),
   forecast     |-> OkWeather(<<>>, <<[city |-> W_shanghai, casts |-> <<Cast(1), Cast(2)>>]>>),
   llm          |-> [kind |-> "ok", message |-> <<>>,
                     data |-> [hasError |-> FALSE, errorMessage |-> <<>>,
                               content |-> LLM_CONTENT]]]

\* no adcode is found, the forecast and the LLM time out
AnswersPoor ==
  [idle         |-> OkPois(<<>>),
   search1      |-> OkPois(RawRange(1, 7)),
   search2      |-> OkPois(<<>>),
   geocode      |-> OkGeo(<<>>),
   weather_geo  |-> OkGeo(<<[adcode |-> <<>>]>>),
   weather      |-> OkWeather(<<LiveSparse>>, <<>>),
   forecast_geo |-> [kind |-> "error", message |-> ERR_TIMEOUT, data |-> NoGeoData],
   forecast     |-> [kind |-> "error", message |-> ERR_TIMEOUT, data |-> NoWeatherData],
   llm          |-> [kind |-> "error", message |-> ERR_CHAOSHI, data |-> NoLlmData]]

\* the first search finds one place, the second fails
AnswersNone ==
  [AnswersPoor EXCEPT
     !.search1 = OkPois(<<RawPoi(1)>>),
     !.search2 = [kind |-> "unparsable", message |-> <<>>, data |-> NoPoiData]]

\* the services answer whatever they can
FREE == [free |-> TRUE, answers |-> AnswersGood]

Scripts == {[free |-> FALSE, answers |-> a] : a \in {AnswersGood, AnswersPoor, AnswersNone}}

ConcurrentRequests == {q \in Requests : q.query # UNDEFINED /\ (q.destination = <<>> <=> q.city = <<>>)}

\* the raw answer may be given to the request run r is waiting for
Allowed(r, raw) == script[r].free \/ raw = script[r].answers[runs[r].pc]

\* no call of the weather functions from outside the use case
NO_DIRECT ==
  [pc |-> "off", fn |-> "", adcodeArg |-> <<>>, raw |-> OkGeo(<<>>),
   ret |-> [rejected |-> FALSE, adcode |-> <<>>,
            weather |-> NULL_WEATHER, forecast |-> NULL_FORECAST]]

NO_REQUEST ==
  [query |-> Q_FOOD, city |-> <<>>, destination |-> <<>>,
   departure |-> <<>>, travelDate |-> <<>>, location |-> <<>>]

\* no application of a function on its own
NO_UNIT ==
  [pc |-> "off", fn |-> "", query |-> <<>>, defaultCity |-> <<>>,
   pois |-> <<>>, request |-> NO_REQUEST, weather |-> NULL_WEATHER,
   weatherForecast |-> NULL_FORECAST,
   parsed |-> [keywords |-> <<>>, city |-> <<>>], text |-> <<>>]

\* an invocation that is never made
Off(request) == [NewRun(request) EXCEPT !.pc = "off"]

\* one use case, one request
Init ==
  /\ config \in Configs
  /\ \E q \in Requests : runs = [r \in Runs |-> IF r = 1 THEN NewRun(q) ELSE Off(q)]
  /\ script = [r \in Runs |-> FREE]
  /\ direct = NO_DIRECT
  /\ unit = NO_UNIT

\* one use case, two requests in flight, the answers to each fixed beforehand
InitConcurrent ==
  /\ config \in Configs
  /\ runs \in [Runs -> {NewRun(q) : q \in ConcurrentRequests}]
  /\ script \in [Runs -> Scripts]
  /\ direct = NO_DIRECT
  /\ unit = NO_UNIT

\* one AmapService, one call of a weather function
InitAdapter ==
  /\ config \in Configs
  /\ runs = [r \in Runs |-> Off(NO_REQUEST)]
  /\ script = [r \in Runs |-> FREE]
  /\ direct = [NO_DIRECT EXCEPT !.pc = "idle"]
  /\ unit = NO_UNIT

(***************************************************************************)
(* Actions: the entry of getRecommendations and the completion of each of  *)
(* the HTTP requests it awaits                                             *)
(***************************************************************************)
\* the locals of the invocation r become s, nothing else changes
InFlight(x) == runs[x].pc \notin {"off", "idle", "done"}

\* s, with the note that another invocation was in flight at this step
Stepped(r, s) ==
  [s EXCEPT !.overlapped = @ \/ \E x \in Runs \ {r} : InFlight(x)]

\* pois kept in a field of the use case instead of a local
Resume_SharedPois(r, s) ==
  /\ runs' = [x \in Runs |-> IF x = r THEN Stepped(r, s)
                              ELSE [runs[x] EXCEPT !.pois = s.pois]]
  /\ UNCHANGED <<config, script, direct, unit>>

Resume(r, s) ==
  /\ runs' = [runs EXCEPT ![r] = Stepped(r, s)]
  /\ UNCHANGED <<config, script, direct, unit>>

Start(r) ==
  /\ runs[r].pc = "idle"
  /\ Resume(r, Begin(runs[r]))

Search1Done(r) ==
  /\ runs[r].pc = "search1"
  /\ \E raw \in PoiOutcomes : Allowed(r, raw) /\ Resume(r, Search1Settled(runs[r], raw))

Search2Done(r) ==
  /\ runs[r].pc = "search2"
  /\ \E raw \in PoiOutcomes : Allowed(r, raw) /\ Resume(r, Search2Settled(runs[r], raw))

GeocodeDone(r) ==
  /\ runs[r].pc = "geocode"
  /\ \E raw \in GeoOutcomes : Allowed(r, raw) /\ Resume(r, GeocodeSettled(runs[r], raw))

WeatherGeoDone(r) ==
  /\ runs[r].pc = "weather_geo"
  /\ \E raw \in GeoOutcomes : Allowed(r, raw) /\ Resume(r, WeatherGeoSettled(runs[r], raw))

WeatherDone(r) ==
  /\ runs[r].pc = "weather"
  /\ \E raw \in LiveOutcomes : Allowed(r, raw) /\ Resume(r, WeatherSettled(runs[r], raw))

ForecastGeoDone(r) ==
  /\ runs[r].pc = "forecast_geo"
  /\ \E raw \in GeoOutcomes : Allowed(r, raw) /\ Resume(r, ForecastGeoSettled(runs[r], raw))

ForecastDone(r) ==
  /\ runs[r].pc = "forecast"
  /\ \E raw \in ForecastOutcomes : Allowed(r, raw) /\ Resume(r, ForecastSettled(runs[r], raw))

LlmDone(r) ==
  /\ runs[r].pc = "llm"
  /\ \E raw \in LlmOutcomes : Allowed(r, raw) /\ Resume(r, LlmSettled(runs[r], raw))

Next ==
  \E r \in Runs :
    \/ Start(r)
    \/ Search1Done(r)
    \/ Search2Done(r)
    \/ GeocodeDone(r)
    \/ WeatherGeoDone(r)
    \/ WeatherDone(r)
    \/ ForecastGeoDone(r)
    \/ ForecastDone(r)
    \/ LlmDone(r)

Spec == Init /\ [][Next]_vars

SpecConcurrent == InitConcurrent /\ [][Next]_vars

\* the invocation s carried through to its return with no other invocation
\* around, each of its requests answered as answers says
RECURSIVE SoloRun(_, _)
SoloRun(s, answers) ==
  IF s.pc = "done" THEN s
  ELSE IF s.pc = "idle"         THEN SoloRun(Begin(s), answers)
  ELSE IF s.pc = "search1"      THEN SoloRun(Search1Settled(s, answers.search1), answers)
  ELSE IF s.pc = "search2"      THEN SoloRun(Search2Settled(s, answers.search2), answers)
  ELSE IF s.pc = "geocode"      THEN SoloRun(GeocodeSettled(s, answers.geocode), answers)
  ELSE IF s.pc = "weather_geo"  THEN SoloRun(WeatherGeoSettled(s, answers.weather_geo), answers)
  ELSE IF s.pc = "weather"      THEN SoloRun(WeatherSettled(s, answers.weather), answers)
  ELSE IF s.pc = "forecast_geo" THEN SoloRun(ForecastGeoSettled(s, answers.forecast_geo), answers)
  ELSE IF s.pc = "forecast"     THEN SoloRun(ForecastSettled(s, answers.forecast), answers)
  ELSE SoloRun(LlmSettled(s, answers.llm), answers)

(***************************************************************************)
(* The weather functions of AmapService called on their own                *)
(***************************************************************************)
WeatherFunctions == {"getCityAdcode", "getWeather", "getWeatherForecast"}

\* the function returns v
DirectReturn(d, field, v) ==
  [d EXCEPT !.pc = "done", !.ret = [@ EXCEPT !.rejected = v.rejected, ![field] = v.value]]

\* fn(city, adcode) is called and runs up to its first await or return
DirectCall ==
  /\ direct.pc = "idle"
  /\ \E fn \in WeatherFunctions, adcode \in {<<>>, ADCODE_SH} :
       LET d     == [direct EXCEPT !.fn = fn, !.adcodeArg = adcode]
           entry == IF fn = "getCityAdcode" THEN weatherEntry(config, ADCODE_SH)
                    ELSE weatherEntry(config, adcode)
       IN  direct' = IF entry = "nokey" THEN [d EXCEPT !.pc = "done"]
                     ELSE [d EXCEPT !.pc = entry]
  /\ UNCHANGED <<config, runs, script, unit>>

\* the getCityAdcode awaited inside getWeather or getWeatherForecast settles
DirectGeoDone ==
  /\ direct.pc = "geo"
  /\ \E raw \in GeoOutcomes :
       LET a == getCityAdcode(raw)
       IN  direct' = IF a.rejected THEN [direct EXCEPT !.pc = "done"]   \* caught: null
                     ELSE [direct EXCEPT !.pc = "http"]
  /\ UNCHANGED <<config, runs, script, unit>>

\* the httpGet of the function settles and the function returns
DirectHttpDone ==
  /\ direct.pc = "http"
  /\ \/ /\ direct.fn = "getCityAdcode"
        /\ \E raw \in GeoOutcomes :
             direct' = DirectReturn([direct EXCEPT !.raw = raw], "adcode", getCityAdcode(raw))
     \/ /\ direct.fn = "getWeather"
        /\ \E raw \in LiveOutcomes :
             direct' = DirectReturn([direct EXCEPT !.raw = raw], "weather", getWeather(raw))
     \/ /\ direct.fn = "getWeatherForecast"
        /\ \E raw \in ForecastOutcomes :
             direct' = DirectReturn([direct EXCEPT !.raw = raw], "forecast", getWeatherForecast(raw))
  /\ UNCHANGED <<config, runs, script, unit>>

NextAdapter == DirectCall \/ DirectGeoDone \/ DirectHttpDone

SpecAdapter == InitAdapter /\ [][NextAdapter]_vars

(***************************************************************************)
(* parseQuery, generateDefaultSummary and the context building applied to  *)
(* arguments of their own                                                  *)
(***************************************************************************)
MaxPhrases == 3     \* phrases a query text is put together from
MaxItems   == 7     \* longest list handed to generateDefaultSummary

W_congshanghai == W_cong \o W_shanghai                  \* 从上海
W_wulumuqishi  == <<"wu", "lu", "mu", "qi", "shi4">>    \* 乌鲁木齐市

Phrases ==
  {W_woxiangqu, W_qu, W_shanghai, W_wan, W_congshanghai, W_chufa, <<COMMA_CN>>,
   W_hangzhou \o W_yiriyou, W_chishenme, W_jingdian, W_kafei, <<"x">>}

\* the texts made of at most n phrases
RECURSIVE PhraseTexts(_)
PhraseTexts(n) ==
  IF n = 0 THEN {<<>>}
  ELSE PhraseTexts(n - 1) \cup {t \o p : t \in PhraseTexts(n - 1), p \in Phrases}

Q_SAME_AS_DEPARTURE == W_qu \o W_shanghai \o W_wan \o W_congshanghai \o W_chufa
                                            \* '去上海玩从上海出发'
Q_SECOND_PATTERN    == Q_SAME_AS_DEPARTURE \o <<COMMA_CN>> \o W_hangzhou \o W_yiriyou
                                            \* '去上海玩从上海出发，杭州一日游'
Q_LONG_CITY         == W_qu \o W_wulumuqishi \o W_wan       \* '去乌鲁木齐市玩'
Q_SPACED            == W_qu \o <<SP>> \o W_shanghai \o <<SP>> \o W_lvyou
                                            \* '去 上海 旅游'
Q_DEPARTURE_FIRST   == W_congshanghai \o W_chufa \o W_qu \o W_hangzhou \o W_wan
                         \o <<COMMA_CN>> \o W_meishi          \* '从上海出发去杭州玩，美食'

Queries ==
  PhraseTexts(MaxPhrases)
    \cup {Q_SAME_AS_DEPARTURE, Q_SECOND_PATTERN, Q_LONG_CITY, Q_SPACED, Q_DEPARTURE_FIRST}

\* the lists of n items of one kind handed to generateDefaultSummary
ItemLists ==
  {[i \in 1..n |-> PoiItemOf(raw[i], W_beijing)] :
     n \in 0..MaxItems,
     raw \in {[i \in 1..MaxItems |-> RawPoi(i)],
              [i \in 1..MaxItems |-> RawPoiFar(i)],
              [i \in 1..MaxItems |-> RawPoiBare(i)]}}

ContextRequests ==
  {[query |-> Q_FOOD, city |-> <<>>, destination |-> d, departure |-> p,
    travelDate |-> t, location |-> l] :
     d \in {<<>>, W_hangzhou}, p \in {<<>>, W_beijing},
     t \in {<<>>, <<"d1">>}, l \in {<<>>, <<"here">>}}

ContextWeathers ==
  {NULL_WEATHER}
    \cup {WeatherInfoOf([LiveFull EXCEPT !.winddirection = wd, !.windpower = wp,
                                         !.humidity = h]) :
            wd \in {<<>>, <<"dong">>}, wp \in {<<>>, <<"3">>}, h \in {<<>>, <<"6", "0">>}}

ContextForecasts ==
  {NULL_FORECAST}
    \cup {[isNull |-> FALSE, days |-> [i \in 1..n |-> WeatherForecastOf(Cast(i))]] :
            n \in 0..2}

\* the configurations that differ in what parseQuery reads
UnitConfigs ==
  {c \in Configs : c.amapKey # <<>> /\ c.llmApiKey # <<>> /\ ~c.mockMode}

InitUnit ==
  /\ config \in UnitConfigs
  /\ runs = [r \in Runs |-> Off(NO_REQUEST)]
  /\ script = [r \in Runs |-> FREE]
  /\ direct = NO_DIRECT
  /\ unit = [NO_UNIT EXCEPT !.pc = "idle"]

\* parseQuery(query, defaultCity)
ParseQueryCall ==
  /\ unit.pc = "idle"
  /\ \E q \in Queries, c \in {<<>>, W_hangzhou} :
       unit' = [unit EXCEPT !.pc = "done", !.fn = "parseQuery", !.query = q,
                            !.defaultCity = c,
                            !.parsed = parseQuery(q, c, config.defaultCity)]
  /\ UNCHANGED <<config, runs, script, direct>>

\* generateDefaultSummary(pois, query)
DefaultSummaryCall ==
  /\ unit.pc = "idle"
  /\ \E l \in ItemLists, q \in {Q_FOOD, Q_SHANGHAI} :
       unit' = [unit EXCEPT !.pc = "done", !.fn = "generateDefaultSummary",
                            !.query = q, !.pois = l,
                            !.text = generateDefaultSummary(l, q)]
  /\ UNCHANGED <<config, runs, script, direct>>

\* the context built in step 5 of getRecommendations
BuildContextCall ==
  /\ unit.pc = "idle"
  /\ \E q \in ContextRequests, w \in ContextWeathers, f \in ContextForecasts :
       unit' = [unit EXCEPT !.pc = "done", !.fn = "buildContext",
                            !.request = q, !.weather = w, !.weatherForecast = f,
                            !.text = buildContext(q, w, f)]
  /\ UNCHANGED <<config, runs, script, direct>>

NextUnit == ParseQueryCall \/ DefaultSummaryCall \/ BuildContextCall

SpecUnit == InitUnit /\ [][NextUnit]_vars

(***************************************************************************)
(* Properties                                                              *)
(***************************************************************************)
\* the positions of the requests to api in the log of a run
CallsTo(s, api) == {i \in 1..Len(s.calls) : s.calls[i].api = api}

WeatherStageApis == {"geocode/geo", "weather/base", "weather/all"}

StartsWith(text, prefix) ==
  Len(text) >= Len(prefix) /\ SubSeq(text, 1, Len(prefix)) = prefix

EndsWith(text, suffix) ==
  Len(text) >= Len(suffix)
    /\ SubSeq(text, Len(text) - Len(suffix) + 1, Len(text)) = suffix

DistinctNames(pois) ==
  \A i, j \in 1..Len(pois) : i # j => pois[i].name # pois[j].name

\* C1: getRecommendations never rejects: the promise of a run is pending
\* until the run returns and resolved from then on, and a run whose error
\* reached the top-level catch resolves with the summary '获取推荐失败: ' +
\* message, no items and fromMock false.
C1_NeverRejects ==
  \A r \in Runs :
    LET s == runs[r]
    IN  /\ s.result.settled # "rejected"
        /\ (s.pc = "done") = (s.result.settled = "resolved")
        /\ (s.pc = "done" /\ parseQueryThrows(s.request.query)) => s.via = "caught"
        /\ s.via = "caught" =>
             /\ StartsWith(s.result.summary, TXT_FAILED)
             /\ s.result.items = <<>>
             /\ s.result.fromMock = FALSE

\* a run returned through the top-level catch
C1_Witness ==
  \E r \in Runs :
    /\ runs[r].pc = "done"
    /\ runs[r].via = "caught"
    /\ runs[r].result.settled = "resolved"
    /\ runs[r].result.summary = TXT_FAILED \o TXT_TYPE_ERROR

\* the run of r got past the places stage
PastPlaces(s) == s.pc \notin {"off", "idle", "search1", "search2"} /\ s.via # "caught"

\* C2: outside mock mode a run whose item list is empty after the places
\* stage returns the 'no place found' summary with no items, fromMock false
\* and no weather, and has issued no geocode, weather, forecast or LLM
\* request.
C2_EmptyShortCircuit ==
  \A r \in Runs :
    LET s == runs[r]
    IN  (~config.mockMode /\ PastPlaces(s) /\ s.pois = <<>>) =>
          /\ s.pc = "done"
          /\ s.result.summary = TXT_NO_PLACE
          /\ s.result.items = <<>>
          /\ s.result.fromMock = FALSE
          /\ s.result.weather.isNull
          /\ s.result.weatherForecast.isNull
          /\ \A i \in 1..Len(s.calls) : s.calls[i].api = "place/text"

\* both searches were made and the list is empty
C2_Witness ==
  \E r \in Runs :
    /\ ~config.mockMode
    /\ runs[r].pc = "done"
    /\ runs[r].via = "no_place"
    /\ Cardinality(CallsTo(runs[r], "place/text")) = 2
    /\ runs[r].second.state = "ok"

\* C3 (as claimed): the items handed to the LLM and the items of the result
\* are at most 50 and no two of them have the same name.
C3_CappedAndDistinct ==
  \A r \in Runs :
    LET s == runs[r]
    IN  /\ \A i \in CallsTo(s, "chat/completions") :
             Len(s.calls[i].pois) <= MERGE_LIMIT /\ DistinctNames(s.calls[i].pois)
        /\ Len(s.result.items) <= MERGE_LIMIT
        /\ DistinctNames(s.result.items)

\* C4 (as claimed): on every return path fromMock equals config.mockMode.
C4_FromMockIffMockMode ==
  \A r \in Runs :
    runs[r].pc = "done" => (runs[r].result.fromMock <=> config.mockMode)

\* C4 (amended): on the assembled return and on the empty-list return
\* fromMock equals config.mockMode; on the return of the top-level catch
\* fromMock is false whatever the mode.
C4_FromMockByPath ==
  \A r \in Runs :
    LET s == runs[r]
    IN  s.pc = "done" =>
          IF s.via = "caught" THEN s.result.fromMock = FALSE
          ELSE s.result.fromMock = config.mockMode

\* a run in mock mode returned its assembled result
C4_Witness ==
  \E r \in Runs :
    /\ config.mockMode
    /\ runs[r].pc = "done"
    /\ runs[r].via = "assembled"
    /\ runs[r].result.fromMock

\* C5 (as claimed): without a destination the city of the place and geocode
\* requests is the city the patterns extract from the query, and the request
\* city or the default only when nothing is extracted.
C5_CityInferredFromText ==
  \A r \in Runs :
    LET s  == runs[r]
        ex == ExtractCity(s.request.query)
    IN  (s.request.destination = <<>> /\ ~parseQueryThrows(s.request.query)) =>
          \A i \in CallsTo(s, "place/text") \cup CallsTo(s, "geocode/geo") :
            s.calls[i].city =
              IF ex.found THEN ex.city
              ELSE OrElse(s.request.city, OrElse(config.defaultCity, HARD_CITY))

\* C6 (as claimed): a run makes at most one geocode request, and the weather
\* and forecast requests use what that one returned.
C6_OneGeocode ==
  \A r \in Runs :
    LET s == runs[r]
    IN  /\ Cardinality(CallsTo(s, "geocode/geo")) <= 1
        /\ \A i \in CallsTo(s, "weather/base") \cup CallsTo(s, "weather/all") :
             s.calls[i].city = IF s.cityAdcode # <<>> THEN s.cityAdcode ELSE s.searchCity

\* C7: when generateRecommendation fails the run returns at once, its
\* summary is the default summary of the items, followed by the timeout note
\* exactly when the message of the error contains 'Timeout' or '超时', and
\* the items and the weather of the result are those the run held before.
C7_Step(r) ==
  (runs[r].pc = "llm" /\ runs'[r].llmError.caught) =>
    LET basic   == generateDefaultSummary(runs[r].pois, runs[r].request.query)
        message == runs'[r].llmError.message
        flagged == Includes(message, <<"Timeout">>) \/ Includes(message, <<"chao", "shi2">>)
    IN  /\ runs'[r].pc = "done"
        /\ runs'[r].result.summary = IF flagged THEN basic \o TXT_TIMEOUT_NOTE ELSE basic
        /\ runs'[r].result.items = runs[r].pois
        /\ runs'[r].result.weather = runs[r].weather
        /\ runs'[r].result.weatherForecast = runs[r].weatherForecast

C7_NarrativeFallback == [][\A r \in Runs : C7_Step(r)]_vars

\* the LLM request timed out ('超时') and the list with the note was returned
C7_Witness ==
  \E r \in Runs :
    /\ runs[r].pc = "done"
    /\ runs[r].llmError.caught
    /\ Includes(runs[r].llmError.message, W_chaoshi)
    /\ Len(runs[r].result.items) > 0
    /\ EndsWith(runs[r].result.summary, TXT_TIMEOUT_NOTE)

\* the names of a list
NamesOf(pois) == {pois[i].name : i \in 1..Len(pois)}

\* C8: the second search (keyword '景点') is made exactly when the first one
\* succeeded with fewer than 5 places, and when both succeeded the list is
\* the first list followed by the places of the second whose name is not in
\* the first, in their order, cut to 50.
C8_TwoPhaseMerge ==
  \A r \in Runs :
    LET s      == runs[r]
        places == CallsTo(s, "place/text")
        fresh  == SelectSeq(s.second.value, LAMBDA p : p.name \notin NamesOf(s.first.value))
        all    == s.first.value \o fresh
    IN  /\ s.pc \in {"off", "idle", "search1"} => Cardinality(places) <= 1
        /\ s.first.state # "none" =>
             (Cardinality(places) = 2 <=> (s.first.state = "ok" /\ Len(s.first.value) < 5))
        /\ Cardinality(places) = 2 => s.calls[2].keywords = W_jingdian
        /\ (s.first.state = "ok" /\ s.second.state = "ok") =>
             s.pois = SubSeq(all, 1, IF Len(all) < 50 THEN Len(all) ELSE 50)

\* 3 places, then 4 places one of which has a name of the first 3: 6 places
C8_Witness ==
  \E r \in Runs :
    /\ runs[r].first.state = "ok" /\ Len(runs[r].first.value) = 3
    /\ runs[r].second.state = "ok" /\ Len(runs[r].second.value) = 4
    /\ Len(runs[r].pois) = 6
    /\ runs[r].pc = "geocode"

\* the list the function looks into once its request has succeeded
DirectList(d) ==
  IF d.fn = "getCityAdcode" THEN d.raw.data.geocodes
  ELSE IF d.fn = "getWeather" THEN d.raw.data.lives
  ELSE d.raw.data.forecasts

\* the call returned null
DirectNull(d) ==
  /\ d.ret.adcode = <<>>
  /\ d.ret.weather = NULL_WEATHER
  /\ d.ret.forecast = NULL_FORECAST

\* C9: getCityAdcode, getWeather and getWeatherForecast never reject, and
\* they return null when the key is missing, when the HTTP request fails,
\* when the service reports a status other than '1' and when the list of
\* results is empty.
C9_AdapterNeverRejects ==
  /\ ~direct.ret.rejected
  /\ (direct.pc = "done"
        /\ (\/ config.amapKey = <<>>
            \/ httpSettle(direct.raw).rejected
            \/ direct.raw.data.status # "1"
            \/ Len(DirectList(direct)) = 0))
       => DirectNull(direct)

\* getWeather has returned null after its request failed in transport
C9_Witness ==
  /\ direct.pc = "done"
  /\ direct.fn = "getWeather"
  /\ config.amapKey # <<>>
  /\ direct.raw.kind = "error"
  /\ direct.ret.weather = NULL_WEATHER
  /\ ~direct.ret.rejected

C11_LlmTimeoutLonger ==
  \A r \in Runs :
    \A i, j \in 1..Len(runs[r].calls) :
      (runs[r].calls[i].api = "chat/completions"
         /\ runs[r].calls[j].api # "chat/completions")
        => runs[r].calls[i].timeout > runs[r].calls[j].timeout

\* parseQuery was applied to its arguments
Parsed == unit.pc = "done" /\ unit.fn = "parseQuery"

\* city || this.config.defaultCity || '北京' for the arguments of the call
FallbackCity == OrElse(unit.defaultCity, OrElse(config.defaultCity, HARD_CITY))

\* the keywords before the common query patterns are looked for
Residual(kw0) ==
  Trim(StripWoXiangQu(Trim(StripCommaDeparture(Trim(StripDeparture(kw0, 1)), 1)), 1))

\* the triggers of the common query patterns
HasFood(k)   == Includes(k, W_chishenme) \/ Includes(k, W_canting) \/ Includes(k, W_meishi)

HasScenic(k) == Includes(k, W_wanshenme) \/ Includes(k, W_jingdian) \/ Includes(k, W_lvyou)

HasCoffee(k) == Includes(k, W_kafei)

\* C12: parseQuery called with a destination returns that destination as
\* the city whatever the text says, and nothing is cut out of the text for a
\* city found in it.
C12_OverrideWins ==
  (Parsed /\ unit.defaultCity # <<>>) =>
    /\ unit.parsed.city = unit.defaultCity
    /\ LET res == Residual(Trim(unit.query))
       IN  (Len(res) >= 2 /\ ~HasFood(res) /\ ~HasScenic(res) /\ ~HasCoffee(res))
             => unit.parsed.keywords = res

\* the text names 上海 in a phrase the patterns recognise, the destination
\* passed is 杭州 and the city returned is 杭州
C12_Witness ==
  /\ Parsed
  /\ unit.defaultCity = W_hangzhou
  /\ Trim(Pattern1Group(unit.query)) = W_shanghai
  /\ CityAccepted(W_shanghai, departureCity(unit.query))
  /\ unit.parsed.city = W_hangzhou
  /\ unit.parsed.keywords = unit.query

\* the keywords that are left when parseQuery reaches the clean-up
KeywordsLeft ==
  LET ex == ExtractCity(unit.query)
  IN  IF unit.defaultCity = <<>> /\ ex.found
        THEN Residual(Trim(RemoveCityPhrase(unit.query, ex.city)))
      ELSE Residual(Trim(unit.query))

\* C13: the keywords parseQuery returns: '景点 旅游' when fewer than 2
\* characters are left of the text; otherwise '餐厅 美食' when a food trigger
\* occurs, else '景点 旅游' when a scenic trigger occurs, else '咖啡店' when
\* 咖啡 occurs, else the text that is left.
C13_KeywordNormalization ==
  Parsed =>
    LET res == KeywordsLeft
        kw  == unit.parsed.keywords
    IN  /\ Len(res) < 2 => kw = KW_SCENIC
        /\ HasFood(res) => kw = KW_FOOD
        /\ (~HasFood(res) /\ HasScenic(res)) => kw = KW_SCENIC
        /\ (~HasFood(res) /\ ~HasScenic(res) /\ HasCoffee(res)) => kw = KW_COFFEE
        /\ (Len(res) >= 2 /\ ~HasFood(res) /\ ~HasScenic(res) /\ ~HasCoffee(res))
             => kw = res

\* a text with a food trigger and a scenic trigger gave '餐厅 美食'
C13_Witness ==
  /\ Parsed
  /\ HasFood(KeywordsLeft)
  /\ HasScenic(KeywordsLeft)
  /\ unit.parsed.keywords = KW_FOOD

\* C16: without a destination, the city parseQuery returns is either the
\* fallback city or a candidate of one of the two patterns that has at most
\* 4 characters, differs from the departure city of '从X出发' and contains
\* neither 出发 nor 从; the candidate of the first pattern is taken when it
\* passes, else that of the second pattern when it passes, else the
\* fallback city.
C16_CandidateAcceptance ==
  (Parsed /\ unit.defaultCity = <<>>) =>
    LET q    == unit.query
        dep  == departureCity(q)
        has1 == Pattern1Group(q) # <<>>
        has2 == Pattern2Group(q) # <<>>
        c1   == Trim(Pattern1Group(q))
        c2   == Trim(Pattern2Group(q))
        ok(c) == Len(c) <= 4 /\ c # dep /\ ~Includes(c, W_chufa) /\ ~Includes(c, W_cong)
        city == unit.parsed.city
    IN  /\ city # FallbackCity =>
             /\ (has1 /\ city = c1) \/ (has2 /\ city = c2)
             /\ ok(city)
        /\ (has1 /\ ok(c1)) => city = c1
        /\ (has1 /\ ~ok(c1) /\ has2 /\ ok(c2)) => city = c2
        /\ (~(has1 /\ ok(c1)) /\ ~(has2 /\ ok(c2))) => city = FallbackCity

\* the candidate of the first pattern is the departure city and is
\* rejected, the candidate of the second pattern is returned
C16_Witness ==
  /\ Parsed
  /\ unit.defaultCity = <<>>
  /\ Trim(Pattern1Group(unit.query)) = W_shanghai
  /\ departureCity(unit.query) = W_shanghai
  /\ unit.parsed.city = W_hangzhou

\* generateDefaultSummary was applied to its arguments
Summarized == unit.pc = "done" /\ unit.fn = "generateDefaultSummary"

\* the head of the line of the i-th listed item
LineHead(pois, i) == <<"\n">> \o NumberToString(i) \o <<".", SP>> \o pois[i].name

\* where w first occurs in text
FirstAt(text, w) == MinOf({i \in 1..(Len(text) + 1) : StartsAt(text, i, w)})

\* C14: generateDefaultSummary returns the sentence '根据您的查询"q"，暂未找到
\* 相关推荐。' for an empty list; for n >= 1 items it lists the first
\* min(n, 5) items, numbered from 1 in the order of the list, and no other
\* item, and it states that n - 5 results are not shown exactly when n > 5.
C14_DefaultSummary ==
  Summarized =>
    LET pois  == unit.pois
        n     == Len(pois)
        shown == Min(n, 5)
        text  == unit.text
    IN  /\ n = 0 => text = TXT_QUERY_OPEN \o unit.query \o TXT_QUERY_CLOSE
        /\ n >= 1 =>
             /\ StartsWith(text, TXT_FOUND)
             /\ \A i \in 1..shown : Includes(text, LineHead(pois, i))
             /\ \A i \in 1..(shown - 1) :
                  FirstAt(text, LineHead(pois, i)) < FirstAt(text, LineHead(pois, i + 1))
             /\ \A i \in (shown + 1)..n : ~Includes(text, pois[i].name)
             /\ ~Includes(text, <<"\n">> \o NumberToString(shown + 1) \o <<".", SP>>)
             /\ Includes(text, TXT_MORE_OPEN) <=> n > 5
             /\ n > 5 => EndsWith(text, TXT_MORE_OPEN \o NumberToString(n - 5) \o TXT_MORE_CLOSE)

\* seven items: five are listed and '2' are said to be left
C14_Witness ==
  /\ Summarized
  /\ Len(unit.pois) = 7
  /\ Includes(unit.text, LineHead(unit.pois, 5))
  /\ EndsWith(unit.text, TXT_MORE_OPEN \o <<"2">> \o TXT_MORE_CLOSE)

\* the context of the narrative call was built from given values
Built == unit.pc = "done" /\ unit.fn = "buildContext"

\* the labels of the segments of a context, in the order of the code
ContextLabels ==
  <<"[mu di di]", "[chu fa di]", "[chu xing ri qi]", "[dang qian wei zhi]",
    "[dang qian tian qi]", "[feng xiang]", "[shi du]", "[wei lai tian qi]">>

\* whether the value behind the k-th label is present
SegmentPresent(k) ==
  LET q == unit.request
      w == unit.weather
      f == unit.weatherForecast
  IN  CASE k = 1 -> q.destination # <<>>
        [] k = 2 -> q.departure # <<>>
        [] k = 3 -> q.travelDate # <<>>
        [] k = 4 -> q.location # <<>>
        [] k = 5 -> ~w.isNull
        [] k = 6 -> ~w.isNull /\ w.winddirection # <<>> /\ w.windpower # <<>>
        [] k = 7 -> ~w.isNull /\ w.humidity # <<>>
        [] OTHER -> ~f.isNull /\ Len(f.days) > 0

\* the value that follows the k-th label
SegmentValue(k) ==
  LET q == unit.request
      w == unit.weather
      f == unit.weatherForecast
  IN  CASE k = 1 -> q.destination
        [] k = 2 -> q.departure
        [] k = 3 -> q.travelDate
        [] k = 4 -> q.location
        [] k = 5 -> w.weather \o <<",", SP, "[wen du]", ":", SP>> \o w.temperature
        [] k = 6 -> w.winddirection \o <<",", SP, "[feng li]", ":", SP>> \o w.windpower
        [] k = 7 -> w.humidity \o <<"%">>
        [] OTHER -> f.days[1].date

\* C15: the context has a segment for the destination, the departure, the
\* travel date, the location, the current weather (with the wind only when
\* direction and power are both known, with the humidity only when it is
\* known) and the forecast, each exactly when its value is present, in this
\* order and separated by ', '; it is empty (passed as undefined) exactly
\* when no value is present.
C15_ContextSegments ==
  Built =>
    LET text == unit.text
        K    == 1..Len(ContextLabels)
    IN  /\ \A k \in K : Includes(text, <<ContextLabels[k]>>) <=> SegmentPresent(k)
        /\ \A k \in K :
             SegmentPresent(k) =>
               Includes(text, <<ContextLabels[k], ":", SP>> \o SegmentValue(k))
        /\ \A j, k \in K :
             (j < k /\ SegmentPresent(j) /\ SegmentPresent(k))
               => /\ FirstAt(text, <<ContextLabels[j]>>) < FirstAt(text, <<ContextLabels[k]>>)
                  /\ Includes(text, <<",", SP, ContextLabels[k]>>)
        /\ text = <<>> <=> \A k \in K : ~SegmentPresent(k)
        /\ text # <<>> => \E k \in K : text[1] = ContextLabels[k]

\* a weather report with a wind direction and no wind power, and a humidity:
\* the context has the weather and the humidity and no wind
C15_Witness ==
  /\ Built
  /\ unit.request.destination # <<>>
  /\ ~unit.weather.isNull
  /\ unit.weather.winddirection # <<>>
  /\ unit.weather.windpower = <<>>
  /\ unit.weather.humidity # <<>>
  /\ Includes(unit.text, <<"[shi du]">>)
  /\ ~Includes(unit.text, <<"[feng xiang]">>)
  /\ unit.weatherForecast.isNull

\* C17: a first search that returned 1 to 4 places keeps them: once the
\* places stage is over they are the head of the list of the run, in their
\* order, and of the items of the result, whether the second search
\* returned places, returned none or failed.
C17_FirstPhaseKept ==
  \A r \in Runs :
    LET s == runs[r]
    IN  (s.first.state = "ok" /\ Len(s.first.value) \in 1..4 /\ s.pc # "search2") =>
          /\ StartsWith(s.pois, s.first.value)
          /\ s.pc = "done" => StartsWith(s.result.items, s.first.value)

\* C18: outside mock mode and with a map key, a searchPoi that fails (the
\* request failed or the service answered with a status other than '1') ends
\* the run with the 'no place found' result: no items, the summary
\* '未找到相关地点…' and not '获取推荐失败: …', and the promise is resolved.
C18_PlacesFailureAbsorbed ==
  \A r \in Runs :
    LET s == runs[r]
    IN  (~config.mockMode /\ config.amapKey # <<>>
          /\ (s.first.state = "failed" \/ s.second.state = "failed")) =>
          /\ s.pc = "done"
          /\ s.via = "no_place"
          /\ s.result.settled = "resolved"
          /\ s.result.summary = TXT_NO_PLACE
          /\ ~StartsWith(s.result.summary, TXT_FAILED)
          /\ s.result.items = <<>>
          /\ s.pois = <<>>

\* the first search failed and the run returned the 'no place found' result
C18_Witness ==
  \E r \in Runs :
    /\ ~config.mockMode
    /\ config.amapKey # <<>>
    /\ runs[r].first.state = "failed"
    /\ Cardinality(CallsTo(runs[r], "place/text")) = 1
    /\ runs[r].pc = "done"
    /\ runs[r].result.summary = TXT_NO_PLACE

\* the stage a request belongs to
StageOf(api) ==
  CASE api = "place/text"   -> 1
    [] api = "geocode/geo"  -> 2
    [] api = "weather/base" -> 3
    [] api = "weather/all"  -> 4
    [] OTHER                -> 5

\* C19: a run has at most one request outstanding, issues its requests in
\* the order places, geocode, current weather, forecast, narrative (a request
\* of an earlier stage never follows one of a later stage), repeats no
\* request that failed, and issues at most two places searches, one
\* current-weather, one forecast and one narrative request.
C19_StrictlySequential ==
  \A r \in Runs :
    LET s == runs[r]
    IN  /\ s.inflight \in {0, 1}
        /\ s.inflight = 1 <=> s.pc \notin {"off", "idle", "done"}
        /\ \A i, j \in 1..Len(s.calls) :
             i < j => StageOf(s.calls[i].api) <= StageOf(s.calls[j].api)
        /\ \A i, j \in 1..Len(s.calls) :
             (i < j /\ s.calls[i] = s.calls[j]) => s.calls[i].api = "place/text"
        /\ Cardinality(CallsTo(s, "place/text")) <= 2
        /\ Cardinality(CallsTo(s, "weather/base")) <= 1
        /\ Cardinality(CallsTo(s, "weather/all")) <= 1
        /\ Cardinality(CallsTo(s, "chat/completions")) <= 1

\* the awaits of step 4
WeatherStagePcs == {"geocode", "weather_geo", "weather", "forecast_geo", "forecast"}

\* the run has made a request of step 4
InWeatherStage(s) == \E i \in 1..Len(s.calls) : s.calls[i].api \in WeatherStageApis

\* C20 as stated: whatever the geocode, current-weather and forecast
\* requests come to, the run goes on to the summary with its list unchanged,
\* and when a request of the weather stage failed the result has neither a
\* current weather nor a forecast.
C20_WeatherAllOrNothing ==
  \A r \in Runs :
    LET s == runs[r]
    IN  (InWeatherStage(s) /\ s.pc = "done") =>
          /\ s.via = "assembled"
          /\ s.result.items = s.pois
          /\ s.result.weather.isNull <=> s.result.weatherForecast.isNull

\* one step of run r out of the weather stage or within it
C20_Step(r) ==
  LET s == runs[r]
      t == runs'[r]
  IN  (s.pc \in WeatherStagePcs /\ t # s) =>
        /\ t.pc \in (WeatherStagePcs \ {"geocode"}) \cup {"llm", "done"}
        /\ t.pois = s.pois
        /\ t.result.settled # "rejected"
        /\ t.pc = "done" => (t.via = "assembled" /\ t.result.items = s.pois)
        /\ s.pc \in {"geocode", "weather_geo"} => (t.weather.isNull /\ t.weatherForecast.isNull)
        /\ s.pc \in {"forecast_geo", "forecast"} => t.weather = s.weather
        /\ s.pc # "forecast" => t.weatherForecast = s.weatherForecast

\* C20 amended: whatever the geocode, current-weather and forecast requests
\* come to, the run goes on to the summary with its list unchanged and
\* returns the assembled result; the result has the current weather the
\* current-weather request delivered and the forecast the forecast request
\* delivered, each absent when its own request delivered none, and a forecast
\* request that fails leaves the current weather in place.
C20_WeatherNonFatal ==
  /\ [](\A r \in Runs :
          (InWeatherStage(runs[r]) /\ runs[r].pc = "done") =>
            /\ runs[r].via = "assembled"
            /\ runs[r].result.items = runs[r].pois
            /\ runs[r].result.weather = runs[r].weather
            /\ runs[r].result.weatherForecast = runs[r].weatherForecast)
  /\ [][\A r \in Runs : C20_Step(r)]_vars

\* the forecast request was made and delivered nothing, and the result has
\* the current weather and the items
C20_Witness ==
  \E r \in Runs :
    /\ runs[r].pc = "done"
    /\ runs[r].via = "assembled"
    /\ CallsTo(runs[r], "weather/all") # {}
    /\ ~runs[r].result.weather.isNull
    /\ runs[r].result.weatherForecast.isNull
    /\ runs[r].result.items # <<>>

\* C21: the LLM is called exactly in the runs that reach the summary stage
\* outside mock mode with an llmApiKey, and their list is never empty; every
\* other run that reaches the summary stage makes no LLM request and returns
\* generateDefaultSummary of its items as the summary.
C21_NarrativeOnlyWhenLive ==
  \A r \in Runs :
    LET s      == runs[r]
        called == CallsTo(s, "chat/completions") # {}
        live   == ~config.mockMode /\ config.llmApiKey # <<>> /\ s.pois # <<>>
    IN  /\ called => live
        /\ (s.pc = "done" /\ s.via = "assembled") =>
             /\ called <=> live
             /\ ~called =>
                  s.result.summary = generateDefaultSummary(s.result.items, s.request.query)

\* the LLM was called and its text is the summary
C21_Witness ==
  \E r \in Runs :
    /\ runs[r].pc = "done"
    /\ runs[r].via = "assembled"
    /\ Cardinality(CallsTo(runs[r], "chat/completions")) = 1
    /\ runs[r].result.summary = LLM_CONTENT
    /\ runs[r].result.items # <<>>

\* the first present value among the destination, the city of the request,
\* the configured default city and '北京'
ResolvedCity(s) ==
  IF s.request.destination # <<>> THEN s.request.destination
  ELSE IF s.request.city # <<>> THEN s.request.city
  ELSE IF config.defaultCity # <<>> THEN config.defaultCity
  ELSE W_beijing

RunStep(r) ==
  \/ Start(r)
  \/ Search1Done(r)
  \/ Search2Done(r)
  \/ GeocodeDone(r)
  \/ WeatherGeoDone(r)
  \/ WeatherDone(r)
  \/ ForecastGeoDone(r)
  \/ ForecastDone(r)
  \/ LlmDone(r)

\* a called invocation runs, and every HTTP request it awaits completes or
\* fails (at the latest when its timeout expires)
Fairness == \A r \in Runs : WF_vars(RunStep(r))

\* one use case with the default city of the profile, and one request that
\* carries a query (a string or not) and nothing else
InitFair ==
  /\ config \in {c \in Configs : c.defaultCity # <<>>}
  /\ \E q \in {x \in Requests : /\ x.destination = <<>> /\ x.city = <<>>
                                 /\ x.query \in {UNDEFINED, Q_FOOD}} :
       runs = [r \in Runs |-> IF r = 1 THEN NewRun(q) ELSE Off(q)]
  /\ script = [r \in Runs |-> FREE]
  /\ direct = NO_DIRECT
  /\ unit = NO_UNIT

SpecFair == InitFair /\ [][Next]_vars /\ Fairness

\* the promise of the run is resolved with a summary and a list of items
Populated(s) ==
  /\ s.pc = "done"
  /\ s.result.settled = "resolved"
  /\ s.result.summary # <<>>
  /\ DOMAIN s.result.items = 1..Len(s.result.items)

\* C23: when every HTTP request completes or fails, every invocation of
\* getRecommendations returns, and what it returns has a non-empty summary
\* and a list of items.
C23_AlwaysReturns ==
  \A r \in Runs : (runs[r].pc # "off") ~> Populated(runs[r])

\* a run whose LLM answered with an empty text returned a summary
C23_Witness ==
  \E r \in Runs :
    /\ Populated(runs[r])
    /\ runs[r].llmError.caught
    /\ runs[r].llmError.message = MSG_LLM_FAILED \o MSG_LLM_EMPTY
    /\ StartsWith(runs[r].result.summary, TXT_FOUND)

(***************************************************************************)
(* The searches of a run for the texts a user can type                     *)
(***************************************************************************)
MaxSearchPhrases == 2     \* phrases the query of a searching run is made of

SearchQueries ==
  PhraseTexts(MaxSearchPhrases)
    \cup {Q_SAME_AS_DEPARTURE, Q_SECOND_PATTERN, Q_LONG_CITY, Q_SPACED, Q_DEPARTURE_FIRST}

\* one use case in live mode with a key for the places, one request that
\* carries a text and nothing else, the answers fixed beforehand
InitSearch ==
  /\ config \in {c \in Configs : ~c.mockMode /\ c.amapKey # <<>> /\ c.defaultCity # <<>>}
  /\ \E q \in SearchQueries :
       runs = [r \in Runs |-> IF r = 1 THEN NewRun([NO_REQUEST EXCEPT !.query = q])
                              ELSE Off(NO_REQUEST)]
  /\ \E a \in Scripts : script = [r \in Runs |-> a]
  /\ direct = NO_DIRECT
  /\ unit = NO_UNIT

SpecSearch == InitSearch /\ [][Next]_vars

\* the keywords of the place searches of a run, in the order of the searches
PlaceKeywords(s) ==
  LET places == SelectSeq(s.calls, LAMBDA c : c.api = "place/text")
  IN  [i \in 1..Len(places) |-> places[i].keywords]

\* C24: the first place search of a run uses the broad combination
\* '景点|旅游景点|名胜古迹|景区|公园|博物馆|纪念馆' when the parsed keywords
\* are empty or exactly '景点 旅游', and the parsed keywords followed by
\* '|景点|旅游景点' when they contain neither '景点' nor '旅游'; a second
\* place search always uses the bare '景点', and there is no third.
C24_KeywordAugmentation ==
  \A r \in Runs :
    LET s  == runs[r]
        k  == s.keywords
        kw == PlaceKeywords(s)
    IN  /\ Len(kw) <= 2
        /\ Len(kw) >= 1 /\ (k = <<>> \/ k = KW_SCENIC) => kw[1] = KW_BROAD
        /\ Len(kw) >= 1 /\ k # <<>> /\ k # KW_SCENIC
             /\ ~Includes(k, W_jingdian) /\ ~Includes(k, W_lvyou)
             => /\ kw[1] = k \o KW_EXTRA
                /\ StartsWith(kw[1], k)
        /\ Len(kw) = 2 => kw[2] = W_jingdian

\* a run whose text left specific keywords searched twice: first for the
\* keywords with '|景点|旅游景点' appended, then for '景点'
C24_Witness ==
  \E r \in Runs :
    /\ runs[r].request.query = W_kafei
    /\ runs[r].keywords = KW_COFFEE
    /\ PlaceKeywords(runs[r]) = <<KW_COFFEE \o KW_EXTRA, W_jingdian>>

\* a run whose text left '景点 旅游' searched for the broad combination
C24_BroadReached ==
  \E r \in Runs :
    /\ runs[r].keywords = KW_SCENIC
    /\ Len(PlaceKeywords(runs[r])) = 2
    /\ PlaceKeywords(runs[r])[1] = KW_BROAD

\* the sentence generateDefaultSummary makes for an empty list
NoResultSentence(query) == TXT_QUERY_OPEN \o query \o TXT_QUERY_CLOSE

====
